---- MODULE Spec2Model ----
(***************************************************************************)
(* Verification model of the pykaraoke-ng decoding cores: the CDG packet   *)
(* decoder (players/cdg_aux.py, CdgPacketReader) and the MIDI/KAR lyric    *)
(* timing engine (players/kar.py).                                         *)
(*                                                                         *)
(* Modelling conventions.                                                  *)
(*  - Byte strings are sequences of numbers 0..255; Python index k is      *)
(*    TLA+ index k+1.                                                      *)
(*  - Both modules are ports of code written for the Python 2 / Numeric    *)
(*    interpreter (cdg_aux.py imports Numeric or numpy.oldnumeric).  The   *)
(*    model reads "/" between integers in cdg_aux.py as floor division,    *)
(*    the pixel arrays as integer arrays, and the comparison of a tuple    *)
(*    with None in kar.py as "None is below every tuple".  Bytes read from *)
(*    a MIDI file compare equal to the string literal of the same          *)
(*    characters ("MThd", "Words").                                        *)
(*  - The CDG screen geometry (300x216 pixels, 6x12 blocks, 6x4 tiles) is  *)
(*    scaled down: the geometry definitions below play the role of bounds. *)
(*    Every relation between them is the one of the source (border width   *)
(*    = block width, display = full - 2 * border, tile = display // tiles).*)
(*  - The pygame colour mapper (map_rgb) is an external collaborator,      *)
(*    modelled as the 24-bit packing of the three channels.                *)
(***************************************************************************)
EXTENDS Integers, Sequences, FiniteSets, TLC

(***************************************************************************)
(* Bit arithmetic on non-negative integers.                                *)
(***************************************************************************)
RECURSIVE BitAnd(_, _)
BitAnd(a, b) ==
  IF a = 0 \/ b = 0 THEN 0
  ELSE (a % 2) * (b % 2) + 2 * BitAnd(a \div 2, b \div 2)

RECURSIVE BitXor(_, _)
BitXor(a, b) ==
  IF a = 0 /\ b = 0 THEN 0
  ELSE ((a + b) % 2) + 2 * BitXor(a \div 2, b \div 2)

RECURSIVE Pow2(_)
Pow2(k) == IF k = 0 THEN 1 ELSE 2 * Pow2(k - 1)

ShiftR(a, k) == a \div Pow2(k)
ShiftL(a, k) == a * Pow2(k)

Min(a, b) == IF a < b THEN a ELSE b
Max(a, b) == IF a > b THEN a ELSE b

\* Python's None and a present value, for results and fields that may be None
None == <<>>
Some(v) == <<v>>
The(o) == o[1]

(***************************************************************************)
(* CDG constants (cdg_aux.py:30-78).                                       *)
(***************************************************************************)
CDG_COMMAND == 9
CDG_INST_MEMORY_PRESET == 1
CDG_INST_BORDER_PRESET == 2
CDG_INST_TILE_BLOCK == 6
CDG_INST_SCROLL_PRESET == 20
CDG_INST_SCROLL_COPY == 24
CDG_INST_DEF_TRANSP_COL == 28
CDG_INST_LOAD_COL_TBL_0_7 == 30
CDG_INST_LOAD_COL_TBL_8_15 == 31
CDG_INST_TILE_BLOCK_XOR == 38
CDG_MASK == 63
COLOUR_TABLE_SIZE == 16
PacketSize == 24

\* Scaled geometry.  Source values: CDG_FULL_WIDTH 300, CDG_FULL_HEIGHT 216,
\* block (font tile, border strip, scroll step) 6 wide and 12 high,
\* TILES_PER_ROW 6, TILES_PER_COL 4.
CDG_FULL_WIDTH == 12
CDG_FULL_HEIGHT == 8
BlockW == 2
BlockH == 2
TILES_PER_ROW == 2
TILES_PER_COL == 2
CDG_DISPLAY_WIDTH == CDG_FULL_WIDTH - 2 * BlockW
CDG_DISPLAY_HEIGHT == CDG_FULL_HEIGHT - 2 * BlockH
TILE_WIDTH == CDG_DISPLAY_WIDTH \div TILES_PER_ROW
TILE_HEIGHT == CDG_DISPLAY_HEIGHT \div TILES_PER_COL

Pixels == (0 .. CDG_FULL_WIDTH - 1) \X (0 .. CDG_FULL_HEIGHT - 1)
Tiles == (0 .. TILES_PER_ROW - 1) \X (0 .. TILES_PER_COL - 1)
AllTilesMask == 0 .. 31
NoColour == -1

\* pygame Surface.map_rgb of the mapper surface.
MapRGB(red, green, blue) == red * 65536 + green * 256 + blue

(***************************************************************************)
(* Bounds of the CDG exploration.                                          *)
(***************************************************************************)
MaxPackets == 3
MaxNumPackets == 2

VARIABLES
  cdg_data,     \* the raw CDG byte buffer given to the constructor
  reader,       \* the CdgPacketReader object (its private fields)
  ret,          \* result of the last do_packets call since the last rewind
  call_pos,     \* read cursor at the start of the last do_packets call
  applied,      \* packets handed to __cdg_packet_process since the last rewind
  shown,        \* what fill_tile copied, per tile, at the last drain
  op            \* the last operation called on the reader

cdg_vars == <<cdg_data, reader, ret, call_pos, applied, shown, op>>

VARIABLES
  midifile,     \* the MidiFile object (kar.py:190-217)
  ts,           \* a MidiTimestamp converter (kar.py:236-276)
  ts_calls,     \* the last advance_to_click target and the highest one so far
  sel,          \* the loop state of _select_best_lyrics
  parse         \* the state of a midi_parse_data call: file handle, position, outcome

midi_vars == <<midifile, ts, ts_calls, sel, parse>>

VARIABLES
  player,       \* the CdgPlayer object (cdg.py): state, position, packet counters
  poll_log,     \* what the polls since the last rewind asked of the decoder
  backend,      \* the PyKaraokeBackend object (core/backend.py)
  song_db,      \* the SongDatabase object (core/database.py): its zip-file cache
  call,         \* a function call under way: the function and its arguments
  result        \* what the call returned or raised, None until it has

fn_vars == <<call, result>>
app_vars == <<player, poll_log, backend, song_db, fn_vars>>

\* no CdgPacketReader has been constructed
CdgIdle ==
  /\ cdg_data = <<>>
  /\ reader = None
  /\ ret = None
  /\ call_pos = 0
  /\ applied = 0
  /\ shown = None
  /\ op = "init"

\* no MIDI object has been constructed
TsIdle == ts = None /\ ts_calls = None
SelIdle == sel = None
ParseIdle == parse = None
MidiIdle == midifile = None /\ TsIdle /\ SelIdle /\ ParseIdle

\* no player and no backend has been constructed
PlayerIdle == player = None /\ poll_log = None
BackendIdle == backend = None
DbIdle == song_db = None
FnIdle == call = None /\ result = None
AppIdle == PlayerIdle /\ BackendIdle /\ DbIdle /\ FnIdle

(***************************************************************************)
(* CdgPacket.__init__ (cdg_aux.py:85-88): data is packet_data[4:20].       *)
(***************************************************************************)
CdgPacket(packet_data) ==
  [command |-> packet_data[1],
   instruction |-> packet_data[2],
   data |-> SubSeq(packet_data, 5, 20)]

\* packd.data[k] of the source
D(packd, k) == packd.data[k + 1]

(***************************************************************************)
(* CdgPacketReader.rewind (cdg_aux.py:113-153), applied to any reader      *)
(* object: every field is overwritten.                                     *)
(***************************************************************************)
Rewind_KeepsShift(r) ==
  [cdg_data_pos |-> 0,
   cdg_colour_table |-> [k \in 0 .. COLOUR_TABLE_SIZE - 1 |-> 0],
   just_cleared_colour_index |-> NoColour,
   cdg_preset_colour_index |-> NoColour,
   cdg_border_colour_index |-> NoColour,
   cdg_transparent_colour |-> NoColour,
   h_offset |-> r.h_offset,
   v_offset |-> r.v_offset,
   cdg_pixel_colours |-> [p \in Pixels |-> 0],
   cdg_surfarray |-> [p \in Pixels |-> 0],
   updated_tiles |-> AllTilesMask]

Rewind(r) ==
  [cdg_data_pos |-> 0,
   cdg_colour_table |-> [k \in 0 .. COLOUR_TABLE_SIZE - 1 |-> 0],
   just_cleared_colour_index |-> NoColour,
   cdg_preset_colour_index |-> NoColour,
   cdg_border_colour_index |-> NoColour,
   cdg_transparent_colour |-> NoColour,
   h_offset |-> 0,
   v_offset |-> 0,
   cdg_pixel_colours |-> [p \in Pixels |-> 0],
   cdg_surfarray |-> [p \in Pixels |-> 0],
   updated_tiles |-> AllTilesMask]

\* CdgPacketReader.__init__ (cdg_aux.py:104-111): cursor 0, then rewind().
NewReader ==
  Rewind([cdg_data_pos |-> 0, h_offset |-> 0, v_offset |-> 0])

(***************************************************************************)
(* __get_next_packet (cdg_aux.py:222-229).  Returns the new cursor and     *)
(* the packet, or None when fewer than 24 bytes were left.                 *)
(***************************************************************************)

Slice(data, pos, n) ==
  IF pos >= Len(data) THEN <<>>
  ELSE SubSeq(data, pos + 1, Min(pos + n, Len(data)))

GetNextPacket_AcceptsShort(data, pos) ==
  LET packet_data == Slice(data, pos, PacketSize)
  IN IF Len(packet_data) > 0
     THEN [pos |-> pos + PacketSize,
           packd |-> Some(CdgPacket(packet_data \o [k \in 1 .. PacketSize |-> 0]))]
     ELSE [pos |-> Len(data), packd |-> None]

GetNextPacket(data, pos) ==
  LET packet_data == Slice(data, pos, PacketSize)
  IN IF Len(packet_data) = PacketSize
     THEN [pos |-> pos + PacketSize, packd |-> Some(CdgPacket(packet_data))]
     ELSE [pos |-> Len(data), packd |-> None]

\* lookup_table = N.array(colour_table); surfarray.flat[:] = N.take(...)
\* (cdg_aux.py:343-344, 389-390, 506-507)
TakeLookup(colour_table, pixel_colours) ==
  [p \in Pixels |-> colour_table[pixel_colours[p]]]

(***************************************************************************)
(* __cdg_memory_preset (cdg_aux.py:259-310)                                *)
(***************************************************************************)
CdgMemoryPreset(r, packd) ==
  LET colour == BitAnd(D(packd, 0), 15)
  IN IF colour = r.just_cleared_colour_index THEN r
     ELSE [r EXCEPT
             !.just_cleared_colour_index = colour,
             !.cdg_preset_colour_index = colour,
             !.cdg_border_colour_index = colour,
             !.cdg_pixel_colours = [p \in Pixels |-> 0 + colour],
             !.cdg_surfarray = [p \in Pixels |-> 0 + r.cdg_colour_table[colour]],
             !.updated_tiles = AllTilesMask]

(***************************************************************************)
(* __cdg_border_preset (cdg_aux.py:313-344)                                *)
(***************************************************************************)
InBorder(p) ==
  \/ p[2] < BlockH
  \/ p[2] >= CDG_FULL_HEIGHT - BlockH
  \/ p[1] < BlockW
  \/ p[1] >= CDG_FULL_WIDTH - BlockW

\* border preset that also marks every tile dirty
CdgBorderPreset_MarksDirty(r, packd) ==
  LET colour == BitAnd(D(packd, 0), 15)
      pix == [p \in Pixels |->
                IF InBorder(p) THEN 0 + colour ELSE r.cdg_pixel_colours[p]]
  IN IF colour = r.cdg_border_colour_index THEN r
     ELSE [r EXCEPT
             !.cdg_border_colour_index = colour,
             !.cdg_pixel_colours = pix,
             !.cdg_surfarray = TakeLookup(r.cdg_colour_table, pix),
             !.updated_tiles = AllTilesMask]

CdgBorderPreset(r, packd) ==
  LET colour == BitAnd(D(packd, 0), 15)
      pix == [p \in Pixels |->
                IF InBorder(p) THEN 0 + colour ELSE r.cdg_pixel_colours[p]]
  IN IF colour = r.cdg_border_colour_index THEN r
     ELSE [r EXCEPT
             !.cdg_border_colour_index = colour,
             !.cdg_pixel_colours = pix,
             !.cdg_surfarray = TakeLookup(r.cdg_colour_table, pix)]

(***************************************************************************)
(* _calc_vertical_scroll / _calc_horizontal_scroll (cdg_aux.py:393-409).   *)
(* The source steps are 12 and 6 pixels: one block.                        *)
(***************************************************************************)
CalcVerticalScroll(v_s_cmd) ==
  IF v_s_cmd = 2 THEN BlockH
  ELSE IF v_s_cmd = 1 THEN 0 - BlockH
  ELSE 0

CalcHorizontalScroll(h_s_cmd) ==
  IF h_s_cmd = 2 THEN BlockW
  ELSE IF h_s_cmd = 1 THEN 0 - BlockW
  ELSE 0

(***************************************************************************)
(* __apply_scroll_copy (cdg_aux.py:411-446): N.concatenate of two slices.  *)
(***************************************************************************)
ApplyScrollCopy_NoWrap(pix, v_scroll_pixels, h_scroll_pixels) ==
  LET W == CDG_FULL_WIDTH
      H == CDG_FULL_HEIGHT
  IN IF v_scroll_pixels > 0 THEN
       [p \in Pixels |->
          IF p[2] < H - v_scroll_pixels
          THEN pix[<<p[1], p[2] + v_scroll_pixels>>]
          ELSE 0]
     ELSE IF v_scroll_pixels < 0 THEN
       LET px == 0 - v_scroll_pixels
       IN [p \in Pixels |->
             IF p[2] < px THEN 0 ELSE pix[<<p[1], p[2] - px>>]]
     ELSE IF h_scroll_pixels > 0 THEN
       [p \in Pixels |->
          IF p[1] < W - h_scroll_pixels
          THEN pix[<<p[1] + h_scroll_pixels, p[2]>>]
          ELSE 0]
     ELSE IF h_scroll_pixels < 0 THEN
       LET px == 0 - h_scroll_pixels
       IN [p \in Pixels |->
             IF p[1] < px THEN 0 ELSE pix[<<p[1] - px, p[2]>>]]
     ELSE pix

ApplyScrollCopy(pix, v_scroll_pixels, h_scroll_pixels) ==
  LET W == CDG_FULL_WIDTH
      H == CDG_FULL_HEIGHT
  IN IF v_scroll_pixels > 0 THEN
       [p \in Pixels |->
          IF p[2] < H - v_scroll_pixels
          THEN pix[<<p[1], p[2] + v_scroll_pixels>>]
          ELSE pix[<<p[1], p[2] - (H - v_scroll_pixels)>>]]
     ELSE IF v_scroll_pixels < 0 THEN
       LET px == 0 - v_scroll_pixels
       IN [p \in Pixels |->
             IF p[2] < px
             THEN pix[<<p[1], H - px + p[2]>>]
             ELSE pix[<<p[1], p[2] - px>>]]
     ELSE IF h_scroll_pixels > 0 THEN
       [p \in Pixels |->
          IF p[1] < W - h_scroll_pixels
          THEN pix[<<p[1] + h_scroll_pixels, p[2]>>]
          ELSE pix[<<p[1] - (W - h_scroll_pixels), p[2]>>]]
     ELSE IF h_scroll_pixels < 0 THEN
       LET px == 0 - h_scroll_pixels
       IN [p \in Pixels |->
             IF p[1] < px
             THEN pix[<<W - px + p[1], p[2]>>]
             ELSE pix[<<p[1] - px, p[2]>>]]
     ELSE pix

(***************************************************************************)
(* __apply_scroll_preset (cdg_aux.py:448-471)                              *)
(***************************************************************************)
ApplyScrollPreset(pix, v_scroll_pixels, h_scroll_pixels, colour) ==
  LET W == CDG_FULL_WIDTH
      H == CDG_FULL_HEIGHT
  IN IF v_scroll_pixels > 0 THEN
       [p \in Pixels |->
          IF p[2] < H - v_scroll_pixels
          THEN pix[<<p[1], p[2] + v_scroll_pixels>>]
          ELSE 0 + colour]
     ELSE IF v_scroll_pixels < 0 THEN
       LET px == 0 - v_scroll_pixels
       IN [p \in Pixels |->
             IF p[2] < px THEN 0 + colour ELSE pix[<<p[1], p[2] - px>>]]
     ELSE IF h_scroll_pixels > 0 THEN
       [p \in Pixels |->
          IF p[1] < W - h_scroll_pixels
          THEN pix[<<p[1] + h_scroll_pixels, p[2]>>]
          ELSE 0 + colour]
     ELSE IF h_scroll_pixels < 0 THEN
       LET px == 0 - h_scroll_pixels
       IN [p \in Pixels |->
             IF p[1] < px THEN 0 + colour ELSE pix[<<p[1] - px, p[2]>>]]
     ELSE pix

\* the scroll handler storing the offset fields as they come
CdgScrollCommon_NoClamp(r, packd, copy) ==
  LET colour == BitAnd(D(packd, 0), 15)
      h_scroll == BitAnd(D(packd, 1), 63)
      v_scroll == BitAnd(D(packd, 2), 63)
      h_s_cmd == ShiftR(BitAnd(h_scroll, 48), 4)
      h_offset == BitAnd(h_scroll, 7)
      v_s_cmd == ShiftR(BitAnd(v_scroll, 48), 4)
      v_offset == BitAnd(v_scroll, 15)
      v_scroll_pixels == CalcVerticalScroll(v_s_cmd)
      h_scroll_pixels == CalcHorizontalScroll(h_s_cmd)
      r1 == IF h_offset # r.h_offset \/ v_offset # r.v_offset
            THEN [r EXCEPT !.h_offset = h_offset,
                           !.v_offset = v_offset,
                           !.updated_tiles = AllTilesMask]
            ELSE r
      pix == IF copy
             THEN ApplyScrollCopy(r.cdg_pixel_colours, v_scroll_pixels, h_scroll_pixels)
             ELSE ApplyScrollPreset(r.cdg_pixel_colours, v_scroll_pixels,
                                    h_scroll_pixels, colour)
  IN IF h_scroll_pixels = 0 /\ v_scroll_pixels = 0 THEN r1
     ELSE [r1 EXCEPT
             !.cdg_pixel_colours = pix,
             !.cdg_surfarray = TakeLookup(r.cdg_colour_table, pix),
             !.updated_tiles = AllTilesMask]

(***************************************************************************)
(* __cdg_scroll_common (cdg_aux.py:355-391); __cdg_scroll_preset and       *)
(* __cdg_scroll_copy (347-352) call it with copy = False / True.  The      *)
(* clamps min(h_offset, 5) and min(v_offset, 11) are block size - 1.       *)
(***************************************************************************)
CdgScrollCommon(r, packd, copy) ==
  LET colour == BitAnd(D(packd, 0), 15)
      h_scroll == BitAnd(D(packd, 1), 63)
      v_scroll == BitAnd(D(packd, 2), 63)
      h_s_cmd == ShiftR(BitAnd(h_scroll, 48), 4)
      h_offset == BitAnd(h_scroll, 7)
      v_s_cmd == ShiftR(BitAnd(v_scroll, 48), 4)
      v_offset == BitAnd(v_scroll, 15)
      v_scroll_pixels == CalcVerticalScroll(v_s_cmd)
      h_scroll_pixels == CalcHorizontalScroll(h_s_cmd)
      r1 == IF h_offset # r.h_offset \/ v_offset # r.v_offset
            THEN [r EXCEPT !.h_offset = Min(h_offset, BlockW - 1),
                           !.v_offset = Min(v_offset, BlockH - 1),
                           !.updated_tiles = AllTilesMask]
            ELSE r
      pix == IF copy
             THEN ApplyScrollCopy(r.cdg_pixel_colours, v_scroll_pixels, h_scroll_pixels)
             ELSE ApplyScrollPreset(r.cdg_pixel_colours, v_scroll_pixels,
                                    h_scroll_pixels, colour)
  IN IF h_scroll_pixels = 0 /\ v_scroll_pixels = 0 THEN r1
     ELSE [r1 EXCEPT
             !.cdg_pixel_colours = pix,
             !.cdg_surfarray = TakeLookup(r.cdg_colour_table, pix),
             !.updated_tiles = AllTilesMask]

\* __cdg_define_transparent_colour (cdg_aux.py:475-478)
CdgDefineTransparentColour(r, packd) ==
  [r EXCEPT !.cdg_transparent_colour = BitAnd(D(packd, 0), 15)]

\* the colour entry read without closing the gap between the two 6-bit fields
ColourEntry_NoPack(packd, i) ==
  LET e0 == ShiftL(BitAnd(D(packd, 2 * i), CDG_MASK), 8)
      e1 == e0 + BitAnd(D(packd, 2 * i + 1), CDG_MASK)
      e2 == e1
      red == ShiftR(BitAnd(e2, 3840), 8) * 17
      green == ShiftR(BitAnd(e2, 240), 4) * 17
      blue == BitAnd(e2, 15) * 17
  IN MapRGB(red, green, blue)

(***************************************************************************)
(* __cdg_load_colour_table_common (cdg_aux.py:481-513)                     *)
(***************************************************************************)
ColourEntry(packd, i) ==
  LET e0 == ShiftL(BitAnd(D(packd, 2 * i), CDG_MASK), 8)
      e1 == e0 + BitAnd(D(packd, 2 * i + 1), CDG_MASK)
      e2 == ShiftR(BitAnd(e1, 16128), 2) + BitAnd(e1, 63)
      red == ShiftR(BitAnd(e2, 3840), 8) * 17
      green == ShiftR(BitAnd(e2, 240), 4) * 17
      blue == BitAnd(e2, 15) * 17
  IN MapRGB(red, green, blue)

CdgLoadColourTableCommon_NoRedraw(r, packd, table) ==
  LET colour_table_start == IF table = 0 THEN 0 ELSE 8
      tbl == [k \in 0 .. COLOUR_TABLE_SIZE - 1 |->
                IF k >= colour_table_start /\ k < colour_table_start + 8
                THEN ColourEntry(packd, k - colour_table_start)
                ELSE r.cdg_colour_table[k]]
  IN [r EXCEPT
        !.cdg_colour_table = tbl,
        !.updated_tiles = AllTilesMask]

CdgLoadColourTableCommon(r, packd, table) ==
  LET colour_table_start == IF table = 0 THEN 0 ELSE 8
      tbl == [k \in 0 .. COLOUR_TABLE_SIZE - 1 |->
                IF k >= colour_table_start /\ k < colour_table_start + 8
                THEN ColourEntry(packd, k - colour_table_start)
                ELSE r.cdg_colour_table[k]]
  IN [r EXCEPT
        !.cdg_colour_table = tbl,
        !.cdg_surfarray = TakeLookup(tbl, r.cdg_pixel_colours),
        !.updated_tiles = AllTilesMask]

(***************************************************************************)
(* __update_tile_mask (cdg_aux.py:546-556).  The constants 6 and 12 of the *)
(* source are the border margins (one block).                              *)
(***************************************************************************)
TileBit(row, col) == row + col * 8

UpdateTileMask(r, row_index, column_index) ==
  LET first_row == Max((row_index - BlockW - r.h_offset) \div TILE_WIDTH, 0)
      last_row == (row_index - 1 - r.h_offset) \div TILE_WIDTH
      first_col == Max((column_index - BlockH - r.v_offset) \div TILE_HEIGHT, 0)
      last_col == (column_index - 1 - r.v_offset) \div TILE_HEIGHT
  IN [r EXCEPT !.updated_tiles =
        @ \cup {TileBit(row, col) : row \in first_row .. last_row,
                                    col \in first_col .. last_col}]

\* __resolve_pixel_colour (cdg_aux.py:572-578)
ResolvePixelColour_XorAdds(r, pixel, colour0, colour1, xor, row, col) ==
  IF xor # 0
  THEN LET xor_col == IF pixel # 0 THEN colour1 ELSE colour0
           current_colour_index == r.cdg_pixel_colours[<<row, col>>]
       IN (current_colour_index + xor_col) % COLOUR_TABLE_SIZE
  ELSE IF pixel # 0 THEN colour1 ELSE colour0

ResolvePixelColour(r, pixel, colour0, colour1, xor, row, col) ==
  IF xor # 0
  THEN LET xor_col == IF pixel # 0 THEN colour1 ELSE colour0
           current_colour_index == r.cdg_pixel_colours[<<row, col>>]
       IN BitXor(current_colour_index, xor_col)
  ELSE IF pixel # 0 THEN colour1 ELSE colour0

(***************************************************************************)
(* __set_tile_pixels (cdg_aux.py:558-570): for i in range(12), j in        *)
(* range(6) the pixel (row_index + j, column_index + i) takes bit 5 - j of *)
(* data_block[4 + i].  Each pixel is written once per call.                *)
(***************************************************************************)
InBlock(p, row_index, column_index) ==
  /\ p[1] >= row_index /\ p[1] < row_index + BlockW
  /\ p[2] >= column_index /\ p[2] < column_index + BlockH

NewCol(r, data_block, row_index, column_index, colour0, colour1, xor, p) ==
  LET i == p[2] - column_index
      j == p[1] - row_index
      byte == BitAnd(data_block[4 + i + 1], 63)
      pixel == BitAnd(ShiftR(byte, 5 - j), 1)
  IN ResolvePixelColour(r, pixel, colour0, colour1, xor, p[1], p[2])

SetTilePixels_IndexOnly(r, data_block, row_index, column_index, colour0, colour1, xor) ==
  [r EXCEPT
     !.cdg_pixel_colours = [p \in Pixels |->
        IF InBlock(p, row_index, column_index)
        THEN NewCol(r, data_block, row_index, column_index, colour0, colour1, xor, p)
        ELSE r.cdg_pixel_colours[p]]]

SetTilePixels(r, data_block, row_index, column_index, colour0, colour1, xor) ==
  [r EXCEPT
     !.cdg_surfarray = [p \in Pixels |->
        IF InBlock(p, row_index, column_index)
        THEN r.cdg_colour_table[
               NewCol(r, data_block, row_index, column_index, colour0, colour1, xor, p)]
        ELSE r.cdg_surfarray[p]],
     !.cdg_pixel_colours = [p \in Pixels |->
        IF InBlock(p, row_index, column_index)
        THEN NewCol(r, data_block, row_index, column_index, colour0, colour1, xor, p)
        ELSE r.cdg_pixel_colours[p]]]

(***************************************************************************)
(* __cdg_tile_block_common (cdg_aux.py:516-544)                            *)
(***************************************************************************)
\* tile block without the sanity check of the position: the pixels of the
\* block that fall outside the arrays are not written
CdgTileBlockCommon_NoClamp(r, packd, xor) ==
  LET data_block == packd.data
      colour0 == BitAnd(D(packd, 0), 15)
      colour1 == BitAnd(D(packd, 1), 15)
      column_index == BitAnd(D(packd, 2), 31) * BlockH
      row_index == BitAnd(D(packd, 3), 63) * BlockW
      r1 == UpdateTileMask(r, row_index, column_index)
      r2 == SetTilePixels(r1, data_block, row_index, column_index, colour0, colour1, xor)
  IN IF BitAnd(D(packd, 1), 32) # 0 THEN r
     ELSE [r2 EXCEPT !.just_cleared_colour_index = NoColour]

CdgTileBlockCommon(r, packd, xor) ==
  LET data_block == packd.data
      colour0 == BitAnd(D(packd, 0), 15)
      colour1 == BitAnd(D(packd, 1), 15)
      column_index0 == BitAnd(D(packd, 2), 31) * BlockH
      row_index0 == BitAnd(D(packd, 3), 63) * BlockW
      column_index == IF column_index0 > CDG_FULL_HEIGHT - BlockH
                      THEN CDG_FULL_HEIGHT - BlockH ELSE column_index0
      row_index == IF row_index0 > CDG_FULL_WIDTH - BlockW
                   THEN CDG_FULL_WIDTH - BlockW ELSE row_index0
      r1 == UpdateTileMask(r, row_index, column_index)
      r2 == SetTilePixels(r1, data_block, row_index, column_index, colour0, colour1, xor)
  IN IF BitAnd(D(packd, 1), 32) # 0 THEN r
     ELSE [r2 EXCEPT !.just_cleared_colour_index = NoColour]

\* the dispatch without the test of the command byte
CdgPacketProcess_AnyCommand(r, packd) ==
  LET inst_code == BitAnd(packd.instruction, CDG_MASK)
  IN IF inst_code = CDG_INST_MEMORY_PRESET THEN CdgMemoryPreset(r, packd)
     ELSE IF inst_code = CDG_INST_BORDER_PRESET THEN CdgBorderPreset(r, packd)
     ELSE IF inst_code = CDG_INST_TILE_BLOCK THEN CdgTileBlockCommon(r, packd, 0)
     ELSE IF inst_code = CDG_INST_SCROLL_PRESET THEN CdgScrollCommon(r, packd, FALSE)
     ELSE IF inst_code = CDG_INST_SCROLL_COPY THEN CdgScrollCommon(r, packd, TRUE)
     ELSE IF inst_code = CDG_INST_DEF_TRANSP_COL THEN CdgDefineTransparentColour(r, packd)
     ELSE IF inst_code = CDG_INST_LOAD_COL_TBL_0_7 THEN CdgLoadColourTableCommon(r, packd, 0)
     ELSE IF inst_code = CDG_INST_LOAD_COL_TBL_8_15 THEN CdgLoadColourTableCommon(r, packd, 1)
     ELSE IF inst_code = CDG_INST_TILE_BLOCK_XOR THEN CdgTileBlockCommon(r, packd, 1)
     ELSE r

(***************************************************************************)
(* __cdg_packet_process (cdg_aux.py:232-256)                               *)
(***************************************************************************)
CdgPacketProcess(r, packd) ==
  LET inst_code == BitAnd(packd.instruction, CDG_MASK)
  IN IF BitAnd(packd.command, CDG_MASK) # CDG_COMMAND THEN r
     ELSE IF inst_code = CDG_INST_MEMORY_PRESET THEN CdgMemoryPreset(r, packd)
     ELSE IF inst_code = CDG_INST_BORDER_PRESET THEN CdgBorderPreset(r, packd)
     ELSE IF inst_code = CDG_INST_TILE_BLOCK THEN CdgTileBlockCommon(r, packd, 0)
     ELSE IF inst_code = CDG_INST_SCROLL_PRESET THEN CdgScrollCommon(r, packd, FALSE)
     ELSE IF inst_code = CDG_INST_SCROLL_COPY THEN CdgScrollCommon(r, packd, TRUE)
     ELSE IF inst_code = CDG_INST_DEF_TRANSP_COL THEN CdgDefineTransparentColour(r, packd)
     ELSE IF inst_code = CDG_INST_LOAD_COL_TBL_0_7 THEN CdgLoadColourTableCommon(r, packd, 0)
     ELSE IF inst_code = CDG_INST_LOAD_COL_TBL_8_15 THEN CdgLoadColourTableCommon(r, packd, 1)
     ELSE IF inst_code = CDG_INST_TILE_BLOCK_XOR THEN CdgTileBlockCommon(r, packd, 1)
     ELSE r

(***************************************************************************)
(* do_packets (cdg_aux.py:185-202): iteration i of the loop and whatever   *)
(* follows it.  Yields the reader, the returned value and the number of    *)
(* packets processed.                                                      *)
(***************************************************************************)
RECURSIVE DoPacketsFrom(_, _, _, _)
DoPacketsFrom(data, r, i, num_packets) ==
  IF i >= num_packets THEN [reader |-> r, ret |-> TRUE, done |-> i]
  ELSE LET nxt == GetNextPacket(data, r.cdg_data_pos)
           r1 == [r EXCEPT !.cdg_data_pos = nxt.pos]
       IN IF nxt.packd = None
          THEN [reader |-> r1, ret |-> (i # 0), done |-> i]
          ELSE DoPacketsFrom(data, CdgPacketProcess(r1, The(nxt.packd)), i + 1, num_packets)

DoPackets(data, r, num_packets) == DoPacketsFrom(data, r, 0, num_packets)

(***************************************************************************)
(* fill_tile (cdg_aux.py:204-216): the slice of the surface array that is  *)
(* blitted into the tile surface.                                          *)
(***************************************************************************)
FillTile(r, row, col) ==
  LET row_start == BlockW + r.h_offset + row * TILE_WIDTH
      row_end == BlockW + r.h_offset + (row + 1) * TILE_WIDTH
      col_start == BlockH + r.v_offset + col * TILE_HEIGHT
      col_end == BlockH + r.v_offset + (col + 1) * TILE_HEIGHT
  IN [p \in {q \in Pixels : /\ q[1] >= row_start /\ q[1] < row_end
                            /\ q[2] >= col_start /\ q[2] < col_end}
        |-> r.cdg_surfarray[p]]

(***************************************************************************)
(* get_dirty_tiles (cdg_aux.py:161-174): the list, in the order of the     *)
(* two loops (col outer, row inner); the mask is then cleared.             *)
(***************************************************************************)
RECURSIVE DirtyTilesFrom(_, _)
DirtyTilesFrom(mask, k) ==
  IF k >= TILES_PER_COL * TILES_PER_ROW THEN <<>>
  ELSE LET col == k \div TILES_PER_ROW
           row == k % TILES_PER_ROW
       IN (IF TileBit(row, col) \in mask THEN << <<row, col>> >> ELSE <<>>)
          \o DirtyTilesFrom(mask, k + 1)

GetDirtyTiles(r) ==
  [tiles |-> IF r.updated_tiles # {} THEN DirtyTilesFrom(r.updated_tiles, 0) ELSE <<>>,
   reader |-> [r EXCEPT !.updated_tiles = {}]]

\* mark_tiles_dirty (cdg_aux.py:155-159)
MarkTilesDirty(r) == [r EXCEPT !.updated_tiles = AllTilesMask]

\* get_border_colour (cdg_aux.py:176-183)
GetBorderColour(r) ==
  IF r.cdg_border_colour_index = NoColour THEN None
  ELSE Some(r.cdg_colour_table[r.cdg_border_colour_index])

(***************************************************************************)
(* Input packets.  A packet is 24 bytes: command, instruction, 2 parity    *)
(* bytes, 16 data bytes, 4 parity bytes.                                   *)
(***************************************************************************)
Zeros(n) == [k \in 1 .. n |-> 0]
Packet24(command, instruction, data) ==
  <<command, instruction, 0, 0>> \o data \o Zeros(16 - Len(data)) \o Zeros(4)

\* slots 0..7: black, red, green, blue, magenta, yellow, cyan, white; some
\* bytes carry bits 6 and 7, which the decoder masks off
P_LoadLow ==
  Packet24(CDG_COMMAND, CDG_INST_LOAD_COL_TBL_0_7,
           <<0, 0, 60, 0, 3, 48, 0, 15, 124, 15, 63, 240, 3, 63, 63, 63>>)
P_MemoryPreset == Packet24(CDG_COMMAND, CDG_INST_MEMORY_PRESET, <<1>>)
P_BorderPreset == Packet24(CDG_COMMAND + 64, CDG_INST_BORDER_PRESET, <<2>>)
\* block at column 1, row 2, colours 0 / 3
P_TileBlock ==
  Packet24(CDG_COMMAND, CDG_INST_TILE_BLOCK, <<0, 3, 1, 2, 32, 16>>)
\* XOR block whose position bytes are clamped to the last block of the buffer
P_TileBlockXor ==
  Packet24(CDG_COMMAND, CDG_INST_TILE_BLOCK_XOR, <<1, 2, 31, 63, 32, 48>>)
\* scroll right by one block filling with colour 4; h_offset 1, v_offset 1
P_ScrollPreset == Packet24(CDG_COMMAND, CDG_INST_SCROLL_PRESET, <<4, 17, 1>>)

PacketAlphabet ==
  {P_LoadLow, P_MemoryPreset, P_BorderPreset, P_TileBlock, P_TileBlockXor,
   P_ScrollPreset}

\* trailing fragments: none, or the first 5 bytes of a memory preset
Fragments == {<<>>, SubSeq(P_MemoryPreset, 1, 4) \o <<7>>}

RECURSIVE Flatten(_)
Flatten(ss) == IF ss = <<>> THEN <<>> ELSE Head(ss) \o Flatten(Tail(ss))

PacketLists == UNION {[1 .. n -> PacketAlphabet] : n \in 0 .. MaxPackets}

CdgInputs == {Flatten(ps) \o f : ps \in PacketLists, f \in Fragments}

\* the decoder state without the cursor and the dirty mask
RenderState(r) == [r EXCEPT !.cdg_data_pos = 0, !.updated_tiles = {}]

View(r) == [t \in Tiles |-> FillTile(r, t[1], t[2])]

vars == <<cdg_vars, midi_vars, app_vars>>

Init ==
  /\ MidiIdle /\ AppIdle
  /\ cdg_data \in CdgInputs
  /\ reader = NewReader
  /\ ret = None
  /\ call_pos = 0
  /\ applied = 0
  /\ shown = None
  /\ op = "init"

\* reader.do_packets(num_packets), num_packets > 0 (cdg.py:398-399)
DoPacketsAct(num_packets) ==
  LET res == DoPackets(cdg_data, reader, num_packets)
  IN /\ reader' = res.reader
     /\ ret' = Some(res.ret)
     /\ call_pos' = reader.cdg_data_pos
     /\ applied' = applied + res.done
     /\ op' = "do_packets"
     /\ UNCHANGED <<cdg_data, shown, midi_vars, app_vars>>

\* reader.get_dirty_tiles() followed by fill_tile for the returned tiles
GetDirtyTilesAct ==
  LET res == GetDirtyTiles(reader)
  IN /\ reader' = res.reader
     /\ shown' = Some(View(reader))
     /\ op' = "get_dirty_tiles"
     /\ UNCHANGED <<cdg_data, ret, call_pos, applied, midi_vars, app_vars>>

MarkTilesDirtyAct ==
  /\ reader' = MarkTilesDirty(reader)
  /\ op' = "mark_tiles_dirty"
  /\ UNCHANGED <<cdg_data, ret, call_pos, applied, shown, midi_vars, app_vars>>

RewindAct ==
  /\ reader' = Rewind(reader)
  /\ ret' = None
  /\ call_pos' = 0
  /\ applied' = 0
  /\ op' = "rewind"
  /\ UNCHANGED <<cdg_data, shown, midi_vars, app_vars>>

Next ==
  \/ \E n \in 1 .. MaxNumPackets : DoPacketsAct(n)
  \/ GetDirtyTilesAct
  \/ MarkTilesDirtyAct
  \/ RewindAct

Spec == Init /\ [][Next]_vars

(***************************************************************************)
(* C1: in every reachable decoder state every surface pixel equals the     *)
(* colour-table entry selected by that pixel's index.                      *)
(***************************************************************************)
C1_SurfaceConsistent ==
  \A p \in Pixels :
    reader.cdg_surfarray[p] = reader.cdg_colour_table[reader.cdg_pixel_colours[p]]

\* a tile block has painted a pixel with a non-black colour of a loaded table
C1_Witness ==
  /\ op = "do_packets"
  /\ \E p \in Pixels : /\ reader.cdg_pixel_colours[p] # 0
                       /\ reader.cdg_surfarray[p] # 0
                       /\ reader.just_cleared_colour_index = NoColour

Range(f) == {f[k] : k \in DOMAIN f}

(***************************************************************************)
(* C2: a display tile whose fill_tile pixels differ from the pixels copied *)
(* at the previous drain is in the list the next get_dirty_tiles returns.  *)
(***************************************************************************)
C2_ChangedTilesAreDirty ==
  shown # None =>
    \A t \in Tiles :
      FillTile(reader, t[1], t[2]) # The(shown)[t]
        => t \in Range(GetDirtyTiles(reader).tiles)

\* the first `k` complete 24-byte packets of the buffer, applied in order
RECURSIVE FoldPackets(_, _, _)
FoldPackets(r, data, k) ==
  IF k = 0 THEN r
  ELSE CdgPacketProcess(FoldPackets(r, data, k - 1),
                        CdgPacket(SubSeq(data, PacketSize * (k - 1) + 1, PacketSize * k)))

(***************************************************************************)
(* C3: do_packets(n), n >= 1, returns false exactly when fewer than 24     *)
(* bytes were left for the first packet of the call; only complete packets *)
(* are ever applied (a trailing fragment is end of stream); after a false  *)
(* result every later call returns false until rewind.                     *)
(***************************************************************************)
C3_DoPacketsResult ==
  /\ [](ret # None =>
          (The(ret) = FALSE <=> Len(cdg_data) - call_pos < PacketSize))
  /\ [](/\ applied * PacketSize <= Len(cdg_data)
        /\ RenderState(reader) = RenderState(FoldPackets(NewReader, cdg_data, applied)))
  /\ [][(ret = Some(FALSE) /\ op' = "do_packets") => ret' = Some(FALSE)]_vars

\* a call ran into a trailing fragment after packets had been applied
C3_Witness ==
  /\ op = "do_packets"
  /\ ret = Some(FALSE)
  /\ applied >= 1
  /\ Len(cdg_data) % PacketSize # 0

(***************************************************************************)
(* C4: rewind leaves the reader equal to a freshly constructed one, and    *)
(* the state after k packets decoded since a rewind is the state a fresh   *)
(* reader has after its first k packets.                                   *)
(***************************************************************************)
C4_RewindIsFresh ==
  /\ op = "rewind" => reader = NewReader
  /\ RenderState(reader) = RenderState(DoPackets(cdg_data, NewReader, applied).reader)

\* a rewind of a reader that had painted and shifted the screen
C4_Witness ==
  /\ op = "rewind"
  /\ shown # None
  /\ \E t \in Tiles : The(shown)[t] # View(NewReader)[t]

(***************************************************************************)
(*                      MIDI / KAR timing (kar.py)                         *)
(***************************************************************************)

\* seq[k] of Python, k possibly negative
PyIndex(seq, k) == IF k < 0 THEN seq[Len(seq) + k + 1] ELSE seq[k + 1]

(***************************************************************************)
(* MidiFile.__init__ (kar.py:191-217).  click_units_per_quarter is None    *)
(* until the header is read.  Times in milliseconds are exact rationals:   *)
(* a time field holds the numerator over 1000 * click_units_per_quarter,   *)
(* i.e. the sum of clicks * tempo.                                         *)
(***************************************************************************)
NewMidiFile ==
  [track_list |-> <<>>,
   lyrics |-> None,
   text_encoding |-> "",
   click_units_per_smpte |-> None,
   smpte_frames_per_sec |-> None,
   click_units_per_quarter |-> None,
   tempo |-> << <<0, 0>> >>,
   numerator |-> None,
   denominator |-> None,
   clocks_per_metronome_tick |-> None,
   notes_per_24_midi_clocks |-> None,
   earliest_note_ms |-> Some(0),
   last_note_ms |-> Some(0)]

\* MidiTimestamp.__init__ (kar.py:241-246); exc names an exception raised
\* by the last call on the object
NewMidiTimestamp ==
  [ms |-> 0, click |-> 0, i |-> 0, exc |-> None]

(***************************************************************************)
(* MidiTimestamp.get_time_for_clicks (kar.py:273-276):                     *)
(* (float(clicks) / click_units_per_quarter) * tempo / 1000.  The result   *)
(* is the numerator clicks * tempo; the division raises when               *)
(* click_units_per_quarter is None (SMPTE file) or 0.                      *)
(***************************************************************************)
GetTimeForClicks(mf, clicks, tempo) ==
  IF mf.click_units_per_quarter = None THEN [exc |-> Some("TypeError"), t |-> 0]
  ELSE IF The(mf.click_units_per_quarter) = 0
       THEN [exc |-> Some("ZeroDivisionError"), t |-> 0]
  ELSE [exc |-> None, t |-> clicks * tempo]

(***************************************************************************)
(* MidiTimestamp.advance_to_click (kar.py:248-271).  AdvanceLoop is the    *)
(* while loop, AdvanceTail the "last tempo holds forever" block.           *)
(***************************************************************************)
RECURSIVE AdvanceLoop(_, _, _)
AdvanceLoop(mf, t, clicks) ==
  IF ~(clicks > 0 /\ t.i < Len(mf.tempo)) THEN [ts |-> t, clicks |-> clicks]
  ELSE LET clicks_remaining == Max(PyIndex(mf.tempo, t.i)[1] - t.click, 0)
           clicks_used == Min(clicks, clicks_remaining)
           time == GetTimeForClicks(mf, clicks_used, PyIndex(mf.tempo, t.i - 1)[2])
       IN IF clicks_used # 0 /\ time.exc # None
          THEN [ts |-> [t EXCEPT !.exc = time.exc], clicks |-> clicks]
          ELSE LET t1 == [t EXCEPT
                            !.ms = IF clicks_used # 0 THEN @ + time.t ELSE @,
                            !.click = @ + clicks_used,
                            !.i = IF clicks_remaining - clicks_used = 0
                                  THEN @ + 1 ELSE @]
               IN AdvanceLoop(mf, t1, clicks - clicks_used)

AdvanceTail_FirstTempo(mf, t, clicks) ==
  IF clicks > 0
  THEN LET time == GetTimeForClicks(mf, clicks, PyIndex(mf.tempo, 0)[2])
       IN IF time.exc # None THEN [t EXCEPT !.exc = time.exc]
          ELSE [t EXCEPT !.ms = @ + time.t, !.click = @ + clicks]
  ELSE t

AdvanceTail(mf, t, clicks) ==
  IF clicks > 0
  THEN LET time == GetTimeForClicks(mf, clicks, PyIndex(mf.tempo, -1)[2])
       IN IF time.exc # None THEN [t EXCEPT !.exc = time.exc]
          ELSE [t EXCEPT !.ms = @ + time.t, !.click = @ + clicks]
  ELSE t

AdvanceToClick_NoGuard(mf, t, click) ==
  LET time == GetTimeForClicks(mf, click - t.click, PyIndex(mf.tempo, -1)[2])
  IN IF time.exc # None THEN [t EXCEPT !.exc = time.exc]
     ELSE [t EXCEPT !.ms = @ + time.t, !.click = click, !.exc = None]

AdvanceToClick(mf, t, click) ==
  LET clicks == click - t.click
      t0 == [t EXCEPT !.exc = None]
      looped == AdvanceLoop(mf, t0, clicks)
  IN IF clicks < 0 THEN t0
     ELSE IF looped.ts.exc # None THEN looped.ts
     ELSE AdvanceTail(mf, looped.ts, looped.clicks)

(***************************************************************************)
(* Inputs of the converter: tempo lists as _meta_set_tempo builds them     *)
(* (the (0, 0) entry of MidiFile.__init__ followed by appended (click,     *)
(* tempo) pairs, in file order, so not necessarily in click order).        *)
(***************************************************************************)
MaxBreaks == 2
MaxClick == 6
SmallClicksPerQuarter == 2

SmallBreaks == {0, 2, 4} \X {0, 3, 5}
SmallTempoLists ==
  {<< <<0, 0>> >> \o bs : bs \in UNION {[1 .. n -> SmallBreaks] : n \in 0 .. MaxBreaks}}

\* the tempo map [(0, 500000), (960, 250000)] at 480 clicks per quarter
ExampleTempo == << <<0, 0>>, <<0, 500000>>, <<960, 250000>> >>
ExampleClicksPerQuarter == 480

TsInputs ==
  {[NewMidiFile EXCEPT !.tempo = tl, !.click_units_per_quarter = q] :
      tl \in SmallTempoLists, q \in {Some(SmallClicksPerQuarter), Some(0), None}}
  \cup {[NewMidiFile EXCEPT !.tempo = ExampleTempo,
                            !.click_units_per_quarter = Some(ExampleClicksPerQuarter)]}

Targets(mf) ==
  IF mf.tempo = ExampleTempo THEN {480, 960, 1440} ELSE 0 .. MaxClick

InitTs ==
  /\ CdgIdle /\ SelIdle /\ ParseIdle /\ AppIdle
  /\ midifile \in TsInputs
  /\ ts = NewMidiTimestamp
  /\ ts_calls = [last |-> None, high |-> 0]

\* ts.advance_to_click(click)
AdvanceToClickAct(click) ==
  /\ ts' = AdvanceToClick(midifile, ts, click)
  /\ ts_calls' = [last |-> Some(click), high |-> Max(ts_calls.high, click)]
  /\ UNCHANGED <<midifile, sel, parse, cdg_vars, app_vars>>

\* ts = MidiTimestamp(midifile): a fresh converter over the same file
NewTimestampAct ==
  /\ ts_calls.last # None
  /\ ts' = NewMidiTimestamp
  /\ ts_calls' = [last |-> None, high |-> 0]
  /\ UNCHANGED <<midifile, sel, parse, cdg_vars, app_vars>>

NextTs ==
  \/ \E click \in Targets(midifile) : AdvanceToClickAct(click)
  \/ NewTimestampAct

SpecTs == InitTs /\ [][NextTs]_vars

\* the clicks of a tempo list never decrease in list order
ClickSorted(tempo) ==
  \A k \in 1 .. Len(tempo) - 1 : tempo[k][1] <= tempo[k + 1][1]

\* tempo of the latest breakpoint whose click is at most p
TempoAt(tempo, p) ==
  LET S == {k \in 1 .. Len(tempo) : tempo[k][1] <= p}
  IN tempo[CHOOSE k \in S : \A j \in S : j <= k][2]

\* sum of TempoAt over the click positions lo .. hi - 1
RECURSIVE SumTempo(_, _, _)
SumTempo(tempo, lo, hi) ==
  IF hi <= lo THEN 0
  ELSE IF hi = lo + 1 THEN TempoAt(tempo, lo)
  ELSE LET mid == (lo + hi) \div 2
       IN SumTempo(tempo, lo, mid) + SumTempo(tempo, mid, hi)

(***************************************************************************)
(* C5: for a tempo list in click order whose first real breakpoint is at   *)
(* click 0, a converter advanced (in one or several calls) is at the       *)
(* highest requested click T and its time is the sum over the positions    *)
(* p in 0 .. T-1 of tempo(p) / click_units_per_quarter / 1000; the example *)
(* map gives 500, 1000 and 1250 ms at clicks 480, 960 and 1440.            *)
(***************************************************************************)
C5_TimeIsTickSum ==
  LET mf == midifile
      q == mf.click_units_per_quarter
  IN /\ (/\ Len(mf.tempo) >= 2 /\ mf.tempo[2][1] = 0
         /\ ClickSorted(mf.tempo)
         /\ q # None /\ The(q) > 0)
        => /\ ts.exc = None
           /\ ts.click = ts_calls.high
           /\ ts.ms = SumTempo(mf.tempo, 0, ts.click)
     /\ (mf.tempo = ExampleTempo /\ q = Some(ExampleClicksPerQuarter))
        => /\ ts.click = 480 => ts.ms = 500 * (1000 * ExampleClicksPerQuarter)
           /\ ts.click = 960 => ts.ms = 1000 * (1000 * ExampleClicksPerQuarter)
           /\ ts.click = 1440 => ts.ms = 1250 * (1000 * ExampleClicksPerQuarter)

\* the example map advanced past its last breakpoint
C5_Witness ==
  /\ midifile.tempo = ExampleTempo
  /\ ts_calls.last = Some(1440)
  /\ ts.click = 1440
  /\ ts.ms = 1250 * (1000 * ExampleClicksPerQuarter)

(***************************************************************************)
(* C6: a call with a target below the current click changes neither click  *)
(* nor ms; on one converter ms is never negative and never decreases, for  *)
(* every tempo list.                                                       *)
(***************************************************************************)
C6_NoBackwardTime ==
  /\ [](ts.ms >= 0)
  /\ [][ts_calls'.last # None => ts'.ms >= ts.ms]_vars
  /\ [][(ts_calls'.last # None /\ The(ts_calls'.last) < ts.click)
          => (ts'.click = ts.click /\ ts'.ms = ts.ms)]_vars

\* a backward call on a converter that has accumulated time
C6_Witness ==
  /\ ts_calls.last # None
  /\ The(ts_calls.last) < ts.click
  /\ ts.ms > 0
  /\ ~ClickSorted(midifile.tempo)

(***************************************************************************)
(*                     MIDI / KAR file parsing (kar.py)                    *)
(* Byte strings are sequences over 0 .. 255; a text is the byte string of  *)
(* its characters (midi_parse_data is called with encoding "", so no       *)
(* decoding step runs, kar.py:778, 819).                                   *)
(***************************************************************************)
TEXT_LYRIC == 0
TEXT_INFO == 1
TEXT_TITLE == 2

Str_MThd == <<77, 84, 104, 100>>
Str_MTrk == <<77, 84, 114, 107>>
Str_Words == <<87, 111, 114, 100, 115>>
Str_SYX == <<32, 83, 89, 88>>
Str_TrackDash == <<84, 114, 97, 99, 107, 45>>
Str_PercentMinus == <<37, 45>>
Str_PercentPlus == <<37, 43>>
Ch_NUL == 0
Ch_LF == 10
Ch_CR == 13
Ch_Space == 32
Ch_Hyphen == 45
Ch_Slash == 47
Ch_At == 64
Ch_I == 73
Ch_T == 84
Ch_Backslash == 92
\* the characters str.strip() removes from a byte string
Whitespace == {9, 10, 11, 12, 13, 32}

\* text[k:] of Python
From(text, k) == SubSeq(text, k + 1, Len(text))

\* text.replace(chr(c), "")
RECURSIVE Remove(_, _)
Remove(text, c) ==
  IF text = <<>> THEN <<>>
  ELSE IF Head(text) = c THEN Remove(Tail(text), c)
  ELSE <<Head(text)>> \o Remove(Tail(text), c)

\* text.split("\n"): always at least one piece
RECURSIVE SplitFrom(_, _, _)
SplitFrom(text, k, piece) ==
  IF k > Len(text) THEN <<piece>>
  ELSE IF text[k] = Ch_LF THEN <<piece>> \o SplitFrom(text, k + 1, <<>>)
  ELSE SplitFrom(text, k + 1, Append(piece, text[k]))

Split(text) == SplitFrom(text, 1, <<>>)

RECURSIVE LStrip(_)
LStrip(text) ==
  IF text # <<>> /\ Head(text) \in Whitespace THEN LStrip(Tail(text)) ELSE text

RECURSIVE RStrip(_)
RStrip(text) ==
  IF text # <<>> /\ text[Len(text)] \in Whitespace
  THEN RStrip(SubSeq(text, 1, Len(text) - 1)) ELSE text

Strip(text) == LStrip(RStrip(text))

\* pat in text
Contains(text, pat) ==
  \E k \in 0 .. Len(text) - Len(pat) : SubSeq(text, k + 1, k + Len(pat)) = pat

\* LyricSyllable.__init__ (kar.py:284-293)
LyricSyllable(click, text, line, type) ==
  [click |-> click, ms |-> None, text |-> text, line |-> line, type |-> type,
   left |-> None, right |-> None]

\* Lyrics.__init__ (kar.py:310-312)
NewLyrics == [list |-> <<>>, line |-> 0]

\* Lyrics.has_any (kar.py:314-316)
HasAny(lyr) == lyr.list # <<>>

\* the loop "for line in lines[1:]: self.line += 1; append" (kar.py:361-363)
RECURSIVE AppendLines(_, _, _, _)
AppendLines(lyr, click, lines, k) ==
  IF k > Len(lines) THEN lyr
  ELSE AppendLines([list |-> Append(lyr.list,
                                     LyricSyllable(click, lines[k], lyr.line + 1, TEXT_LYRIC)),
                    line |-> lyr.line + 1],
                   click, lines, k + 1)

\* the loop over an "@T" / "@I" comment (kar.py:342-345)
RECURSIVE AppendComment(_, _, _, _, _)
AppendComment(lyr, click, lines, k, text_type) ==
  IF k > Len(lines) THEN lyr
  ELSE AppendComment([list |-> Append(lyr.list,
                                       LyricSyllable(click, Strip(lines[k]), lyr.line + 1,
                                                     text_type)),
                      line |-> lyr.line + 1],
                     click, lines, k + 1, text_type)

\* the common tail of record_text and record_lyric: first piece on the
\* current line, every further piece on a new line
AppendSplit(lyr, click, text) ==
  LET lines == Split(text)
      first == [lyr EXCEPT !.list = Append(@, LyricSyllable(click, lines[1], lyr.line,
                                                            TEXT_LYRIC))]
  IN AppendLines(first, click, lines, 2)

\* the break markers with "/" starting again at line 1
BreakMarker_RestartsLine(lyr, text) ==
  IF text[1] = Ch_Backslash THEN [lyr |-> [lyr EXCEPT !.line = @ + 2], text |-> From(text, 1)]
  ELSE IF text[1] = Ch_Slash THEN [lyr |-> [lyr EXCEPT !.line = 1], text |-> From(text, 1)]
  ELSE [lyr |-> lyr, text |-> text]

\* leading "\" (paragraph) or "/" (line) break marker
BreakMarker(lyr, text) ==
  IF text[1] = Ch_Backslash THEN [lyr |-> [lyr EXCEPT !.line = @ + 2], text |-> From(text, 1)]
  ELSE IF text[1] = Ch_Slash THEN [lyr |-> [lyr EXCEPT !.line = @ + 1], text |-> From(text, 1)]
  ELSE [lyr |-> lyr, text |-> text]

(***************************************************************************)
(* Lyrics.record_text (kar.py:318-363).  The result carries the exception  *)
(* the call raises, if any: text[1] of the one-character text "@".         *)
(***************************************************************************)
RecordText(lyr, click, raw) ==
  LET text == Remove(Remove(raw, Ch_NUL), Ch_CR)
  IN IF text = <<>> THEN [lyr |-> lyr, exc |-> None]
     ELSE IF text[1] = Ch_At
     THEN IF Len(text) < 2 THEN [lyr |-> lyr, exc |-> Some("IndexError")]
          ELSE IF text[2] = Ch_T
          THEN [lyr |-> AppendComment(lyr, click, Split(From(text, 2)), 1, TEXT_TITLE),
                exc |-> None]
          ELSE IF text[2] = Ch_I
          THEN [lyr |-> AppendComment(lyr, click, Split(From(text, 2)), 1, TEXT_INFO),
                exc |-> None]
          ELSE [lyr |-> lyr, exc |-> None]
     ELSE LET m == BreakMarker(lyr, text)
          IN IF m.text # <<>>
             THEN [lyr |-> AppendSplit(m.lyr, click, m.text), exc |-> None]
             ELSE [lyr |-> m.lyr, exc |-> None]

(***************************************************************************)
(* Lyrics.record_lyric (kar.py:365-400).  A text of carriage returns only  *)
(* (other than "\r" itself) is empty after the replace, and text[0] raises.*)
(***************************************************************************)
RecordLyric(lyr, click, raw) ==
  LET text == Remove(raw, Ch_NUL)
  IN IF text = <<Ch_LF>> THEN [lyr |-> [lyr EXCEPT !.line = @ + 2], exc |-> None]
     ELSE IF text = <<Ch_CR>> \/ text = <<Ch_CR, Ch_LF>>
     THEN [lyr |-> [lyr EXCEPT !.line = @ + 1], exc |-> None]
     ELSE IF text # <<>>
     THEN LET t1 == Remove(text, Ch_CR)
          IN IF t1 = <<>> THEN [lyr |-> lyr, exc |-> Some("IndexError")]
             ELSE LET m == BreakMarker(lyr, t1)
                  IN [lyr |-> AppendSplit(m.lyr, click, m.text), exc |-> None]
     ELSE [lyr |-> lyr, exc |-> None]

\* _is_lyric_text (kar.py:941-948)
IsLyricText(text) ==
  /\ ~Contains(text, Str_SYX)
  /\ ~Contains(text, Str_TrackDash)
  /\ ~Contains(text, Str_PercentMinus)
  /\ ~Contains(text, Str_PercentPlus)

\* TrackDesc.__init__ (kar.py:220-232)
TrackDesc(track_num) ==
  [track_num |-> track_num,
   total_clicks_from_start |-> 0,
   bytes_read |-> 0,
   first_note_click |-> None,
   first_note_ms |-> None,
   last_note_click |-> None,
   last_note_ms |-> None,
   lyrics_track |-> FALSE,
   running_status |-> 0,
   text_events |-> NewLyrics,
   lyric_events |-> NewLyrics]

(***************************************************************************)
(* The file handle: the byte string and a read position.                   *)
(***************************************************************************)
\* filehdl.read(n): at most n bytes, all the rest when n is negative
Read(data, pos, n) ==
  LET avail == Len(data) - pos
      k == IF n < 0 THEN avail ELSE Min(n, avail)
  IN [bytes |-> SubSeq(data, pos + 1, pos + k), pos |-> pos + k]

\* big-endian unsigned integer of a byte string (struct.unpack ">H", ">L")
RECURSIVE BigEndian(_)
BigEndian(bytes) ==
  IF bytes = <<>> THEN 0
  ELSE 256 * BigEndian(SubSeq(bytes, 1, Len(bytes) - 1)) + bytes[Len(bytes)]

(***************************************************************************)
(* var_length (kar.py:1028-1045): a variable-length quantity, 7 bits per   *)
(* byte, and the number of bytes read; (0, 0) when the stream ends first.  *)
(***************************************************************************)
RECURSIVE VarLengthFrom(_, _, _, _, _)
VarLengthFrom(data, pos, converted_int, bit_shift, bytes_read) ==
  IF ~(bit_shift <= 42)
  THEN [value |-> converted_int, var_bytes |-> bytes_read, pos |-> pos]
  ELSE LET rd == Read(data, pos, 1)
       IN IF rd.bytes = <<>> THEN [value |-> 0, var_bytes |-> 0, pos |-> rd.pos]
          ELSE LET byte_val == rd.bytes[1]
                   c == ShiftL(converted_int, 7) + BitAnd(byte_val, 127)
               IN IF BitAnd(byte_val, 128) # 0
                  THEN VarLengthFrom(data, rd.pos, c, bit_shift + 7, bytes_read + 1)
                  ELSE [value |-> c, var_bytes |-> bytes_read + 1, pos |-> rd.pos]

VarLength_ShortLoop(data, pos) == VarLengthFrom(data, pos, 0, 28, 0)

VarLength(data, pos) == VarLengthFrom(data, pos, 0, 0, 0)

(***************************************************************************)
(* Event handlers.  Each takes the file position, the track descriptor and *)
(* the MidiFile, and yields the new three, the byte count n it returns and *)
(* the exception it raises (None when it returns).                         *)
(***************************************************************************)
Returns(pos, track, mf, n) ==
  [pos |-> pos, track |-> track, mf |-> mf, n |-> n, exc |-> None]

Raises(pos, track, mf, e) ==
  [pos |-> pos, track |-> track, mf |-> mf, n |-> 0, exc |-> Some(e)]

\* _read_and_discard_var (kar.py:951-958)
ReadAndDiscardVar(data, pos, track, mf) ==
  LET vl == VarLength(data, pos)
      rd == Read(data, vl.pos, vl.value)
  IN Returns(rd.pos, track, mf, vl.var_bytes + vl.value)

\* _meta_sequence_number (kar.py:757-767): "_, type_val = map(ord, packet)"
MetaSequenceNumber(data, pos, track, mf) ==
  LET rd == Read(data, pos, 2)
  IN IF Len(rd.bytes) # 2 THEN Raises(rd.pos, track, mf, "ValueError")
     ELSE IF rd.bytes[2] = 2
     THEN Returns(Read(data, rd.pos, 2).pos, track, mf, 2)
     ELSE Returns(rd.pos, track, mf, 2)

\* _meta_text_event (kar.py:770-786)
MetaTextEvent(data, pos, track, mf) ==
  LET Recorded(rd, n, rec) ==
        IF rec.exc # None THEN Raises(rd.pos, track, mf, The(rec.exc))
        ELSE Returns(rd.pos, [track EXCEPT !.text_events = rec.lyr], mf, n)
      Text(vl, rd) ==
        IF vl.value <= 1000 /\ IsLyricText(rd.bytes)
        THEN Recorded(rd, vl.var_bytes + vl.value,
                      RecordText(track.text_events, track.total_clicks_from_start,
                                 rd.bytes))
        ELSE Returns(rd.pos, track, mf, vl.var_bytes + vl.value)
      Length(vl) == Text(vl, Read(data, vl.pos, vl.value))
  IN Length(VarLength(data, pos))

\* _meta_track_title (kar.py:794-805)
MetaTrackTitle(data, pos, track, mf) ==
  LET vl == VarLength(data, pos)
      rd == Read(data, vl.pos, vl.value)
  IN Returns(rd.pos,
             IF rd.bytes = Str_Words THEN [track EXCEPT !.lyrics_track = TRUE] ELSE track,
             mf, vl.var_bytes + vl.value)

\* _meta_lyric_event (kar.py:813-826)
MetaLyricEvent(data, pos, track, mf) ==
  LET Recorded(rd, n, rec) ==
        IF rec.exc # None THEN Raises(rd.pos, track, mf, The(rec.exc))
        ELSE Returns(rd.pos, [track EXCEPT !.lyric_events = rec.lyr], mf, n)
      Text(vl, rd) ==
        IF IsLyricText(rd.bytes)
        THEN Recorded(rd, vl.var_bytes + vl.value,
                      RecordLyric(track.lyric_events, track.total_clicks_from_start,
                                  rd.bytes))
        ELSE Returns(rd.pos, track, mf, vl.var_bytes + vl.value)
      Length(vl) == Text(vl, Read(data, vl.pos, vl.value))
  IN Length(VarLength(data, pos))

\* _meta_fixed_discard_2 (kar.py:834-837)
MetaFixedDiscard2(data, pos, track, mf) ==
  Returns(Read(data, pos, 2).pos, track, mf, 2)

\* _meta_end_of_track (kar.py:840-846): ord() of the byte read
MetaEndOfTrack(data, pos, track, mf) ==
  LET rd == Read(data, pos, 1)
  IN IF rd.bytes = <<>> THEN Raises(rd.pos, track, mf, "TypeError")
     ELSE Returns(rd.pos, track, mf, 1)

\* _meta_set_tempo (kar.py:849-860)
MetaSetTempo(data, pos, track, mf) ==
  LET rd == Read(data, pos, 4)
      tempo == ShiftL(rd.bytes[2], 16) + ShiftL(rd.bytes[3], 8) + rd.bytes[4]
  IN IF Len(rd.bytes) # 4 THEN Raises(rd.pos, track, mf, "ValueError")
     ELSE Returns(rd.pos, track,
                  [mf EXCEPT !.tempo = Append(@, <<track.total_clicks_from_start, tempo>>)],
                  4)

\* _meta_smpte (kar.py:863-866)
MetaSmpte(data, pos, track, mf) ==
  Returns(Read(data, pos, 6).pos, track, mf, 6)

\* _meta_time_signature (kar.py:869-882)
MetaTimeSignature(data, pos, track, mf) ==
  LET rd == Read(data, pos, 5)
  IN IF Len(rd.bytes) # 5 THEN Raises(rd.pos, track, mf, "ValueError")
     ELSE Returns(rd.pos, track,
                  [mf EXCEPT !.numerator = Some(rd.bytes[2]),
                             !.denominator = Some(rd.bytes[3]),
                             !.clocks_per_metronome_tick = Some(rd.bytes[4]),
                             !.notes_per_24_midi_clocks = Some(rd.bytes[5])],
                  5)

\* _meta_key_signature (kar.py:885-891)
MetaKeySignature(data, pos, track, mf) ==
  LET rd == Read(data, pos, 3)
  IN IF Len(rd.bytes) # 3 THEN Raises(rd.pos, track, mf, "ValueError")
     ELSE Returns(rd.pos, track, mf, 3)

\* _meta_sequencer_specific (kar.py:894-915)
MetaSequencerSpecific(data, pos, track, mf) ==
  LET vl == VarLength(data, pos)
      id == Read(data, vl.pos, 1)
      ext == Read(data, id.pos, 2)
      long == id.bytes = <<0>>
      length == IF long THEN vl.value - 3 ELSE vl.value - 1
      rd == Read(data, IF long THEN ext.pos ELSE id.pos, length)
  IN IF id.bytes = <<>> THEN Raises(id.pos, track, mf, "TypeError")
     ELSE IF long /\ Len(ext.bytes) # 2 THEN Raises(ext.pos, track, mf, "struct.error")
     ELSE Returns(rd.pos, track, mf,
                  vl.var_bytes + 1 + (IF long THEN 2 ELSE 0) + length)

\* meta-event codes whose handler is _read_and_discard_var
\* (_META_EVENT_HANDLERS, kar.py:919-938)
MetaDiscardVarCodes == {2, 4, 6, 7, 8, 9}

\* _process_meta_event (kar.py:740-754) with the table _META_EVENT_HANDLERS
ProcessMetaEvent(data, pos, track, mf) ==
  LET Handler(event, p) ==
        CASE event = 0 -> MetaSequenceNumber(data, p, track, mf)
          [] event = 1 -> MetaTextEvent(data, p, track, mf)
          [] event = 3 -> MetaTrackTitle(data, p, track, mf)
          [] event = 5 -> MetaLyricEvent(data, p, track, mf)
          [] event \in MetaDiscardVarCodes -> ReadAndDiscardVar(data, p, track, mf)
          [] event \in {32, 33} -> MetaFixedDiscard2(data, p, track, mf)
          [] event = 47 -> MetaEndOfTrack(data, p, track, mf)
          [] event = 81 -> MetaSetTempo(data, p, track, mf)
          [] event = 84 -> MetaSmpte(data, p, track, mf)
          [] event = 88 -> MetaTimeSignature(data, p, track, mf)
          [] event = 89 -> MetaKeySignature(data, p, track, mf)
          [] event = 127 -> MetaSequencerSpecific(data, p, track, mf)
          [] OTHER -> ReadAndDiscardVar(data, p, track, mf)
      Counted(sub) == IF sub.exc # None THEN sub ELSE [sub EXCEPT !.n = 1 + @]
      Event(rd) ==
        IF rd.bytes = <<>> THEN Raises(rd.pos, track, mf, "TypeError")
        ELSE Counted(Handler(rd.bytes[1], rd.pos))
  IN Event(Read(data, pos, 1))

\* _process_sysex_f0 (kar.py:1011-1022)
ProcessSysexF0(data, pos, track, mf) ==
  LET vl == VarLength(data, pos)
      body == Read(data, vl.pos, vl.value - 1)
      end_byte == Read(data, body.pos, 1)
  IN IF end_byte.bytes = <<>> THEN Raises(end_byte.pos, track, mf, "TypeError")
     ELSE Returns(end_byte.pos, track, mf, vl.var_bytes + vl.value)

\* _process_channel_event (kar.py:968-1008)
ProcessChannelEvent(data, pos, track, mf, event_type) ==
  LET high_nibble == BitAnd(event_type, 240)
      click == track.total_clicks_from_start
  IN CASE high_nibble = 128 ->
            Returns(Read(data, pos, 2).pos,
                    [track EXCEPT !.last_note_click = Some(click)], mf, 2)
       [] high_nibble = 144 ->
            Returns(Read(data, pos, 2).pos,
                    [track EXCEPT
                       !.first_note_click = IF @ = None THEN Some(click) ELSE @,
                       !.last_note_click = Some(click)], mf, 2)
       [] high_nibble \in {160, 176, 224} ->
            Returns(Read(data, pos, 2).pos, track, mf, 2)
       [] high_nibble \in {192, 208} ->
            Returns(Read(data, pos, 1).pos, track, mf, 1)
       [] event_type = 240 -> ProcessSysexF0(data, pos, track, mf)
       [] OTHER -> ReadAndDiscardVar(data, pos, track, mf)

(***************************************************************************)
(* midi_process_event (kar.py:710-737): delta time, status byte with       *)
(* running status, then the meta or channel handler.  n = 0 reports a      *)
(* stream that ended where the delta time was expected.                    *)
(***************************************************************************)
MidiProcessEvent(data, pos, track, mf) ==
  LET Counted(sub, n) == IF sub.exc # None THEN sub ELSE [sub EXCEPT !.n = n + @]
      Handle(t2, p2, event_type, n) ==
        Counted(IF event_type = 255 THEN ProcessMetaEvent(data, p2, t2, mf)
                ELSE ProcessChannelEvent(data, p2, t2, mf, event_type),
                n)
      Running(t1, p2, is_status, event_type, n) ==
        Handle(IF is_status /\ BitAnd(event_type, 240) # 240
               THEN [t1 EXCEPT !.running_status = event_type] ELSE t1,
               p2, event_type, n)
      Status(t1, rd, is_status, var_bytes) ==
        Running(t1,
                IF is_status THEN rd.pos ELSE rd.pos - 1,
                is_status,
                IF is_status THEN rd.bytes[1] ELSE t1.running_status,
                var_bytes + (IF is_status THEN 1 ELSE 0))
      Byte(t1, rd, var_bytes) ==
        IF rd.bytes = <<>> THEN Raises(rd.pos, t1, mf, "TypeError")
        ELSE Status(t1, rd, BitAnd(rd.bytes[1], 128) # 0, var_bytes)
      Delta(vl) ==
        IF vl.var_bytes = 0 THEN Returns(vl.pos, track, mf, 0)
        ELSE Byte([track EXCEPT !.total_clicks_from_start = @ + vl.value],
                  Read(data, vl.pos, 1), vl.var_bytes)
  IN Delta(VarLength(data, pos))

(***************************************************************************)
(* midi_parse_track (kar.py:695-707): events until bytes_read reaches the  *)
(* declared length.  track is None when the function returns None.         *)
(***************************************************************************)
RECURSIVE MidiParseTrackFrom(_, _, _, _, _)
MidiParseTrackFrom(data, pos, track, mf, length) ==
  IF ~(track.bytes_read < length)
  THEN [pos |-> pos, track |-> Some(track), mf |-> mf, exc |-> None]
  ELSE LET Event(ev) ==
             IF ev.exc # None
             THEN [pos |-> ev.pos, track |-> None, mf |-> ev.mf, exc |-> ev.exc]
             ELSE IF ev.n = 0 \/ ev.n = -1
             THEN [pos |-> ev.pos, track |-> None, mf |-> ev.mf, exc |-> None]
             ELSE MidiParseTrackFrom(data, ev.pos,
                                     [ev.track EXCEPT !.bytes_read = @ + ev.n],
                                     ev.mf, length)
       IN Event(MidiProcessEvent(data, pos, track, mf))

MidiParseTrack(data, pos, mf, track_num, length) ==
  MidiParseTrackFrom(data, pos, TrackDesc(track_num), mf, length)

(***************************************************************************)
(* Lyric selection.  A Lyrics object is referred to by the pair            *)
(* <<k, attr>>: attribute attr ("text_events" or "lyric_events") of the    *)
(* k-th track of track_list, so that two lists with equal contents stay    *)
(* distinct objects.                                                       *)
(***************************************************************************)
Deref(track_list, ref) == track_list[ref[1]][ref[2]]

\* _choose_lyrics_from_track (kar.py:665-678): the attribute chosen, or None
ChooseLyricsFromTrack_NotShorter(track_desc) ==
  LET has_text == HasAny(track_desc.text_events)
      has_lyric == HasAny(track_desc.lyric_events)
  IN IF has_text /\ has_lyric
     THEN IF Len(track_desc.lyric_events.list) >= Len(track_desc.text_events.list)
          THEN Some("lyric_events") ELSE Some("text_events")
     ELSE IF has_text THEN Some("text_events")
     ELSE IF has_lyric THEN Some("lyric_events")
     ELSE None

ChooseLyricsFromTrack(track_desc) ==
  LET has_text == HasAny(track_desc.text_events)
      has_lyric == HasAny(track_desc.lyric_events)
  IN IF has_text /\ has_lyric
     THEN IF Len(track_desc.lyric_events.list) > Len(track_desc.text_events.list)
          THEN Some("lyric_events") ELSE Some("text_events")
     ELSE IF has_text THEN Some("text_events")
     ELSE IF has_lyric THEN Some("lyric_events")
     ELSE None

\* "sort_key > best_sort_key" on (bool, int) tuples (kar.py:659); None,
\* the initial best_sort_key, is below every tuple
SortKeyGreater_OrEqual(sort_key, best_sort_key) ==
  \/ best_sort_key = None
  \/ LET a == sort_key
         b == The(best_sort_key)
     IN \/ a[1] /\ ~b[1]
        \/ a[1] = b[1] /\ a[2] >= b[2]

SortKeyGreater(sort_key, best_sort_key) ==
  \/ best_sort_key = None
  \/ LET a == sort_key
         b == The(best_sort_key)
     IN \/ a[1] /\ ~b[1]
        \/ a[1] = b[1] /\ a[2] > b[2]

\* one iteration of the loop of _select_best_lyrics (kar.py:654-661) on
\* the k-th track; best is [best_sort_key, best_lyrics]
SelectIter(best, track_list, k) ==
  LET track_desc == track_list[k]
      lyrics == ChooseLyricsFromTrack(track_desc)
      sort_key == <<track_desc.lyrics_track, Len(track_desc[The(lyrics)].list)>>
  IN IF lyrics = None THEN best
     ELSE IF SortKeyGreater(sort_key, best.best_sort_key)
     THEN [best_sort_key |-> Some(sort_key), best_lyrics |-> Some(<<k, The(lyrics)>>)]
     ELSE best

RECURSIVE SelectFrom(_, _, _)
SelectFrom(best, track_list, k) ==
  IF k > Len(track_list) THEN best
  ELSE SelectFrom(SelectIter(best, track_list, k), track_list, k + 1)

\* _select_best_lyrics (kar.py:649-662): a reference to the chosen list, or None
SelectBestLyrics(track_list) ==
  SelectFrom([best_sort_key |-> None, best_lyrics |-> None], track_list, 1).best_lyrics

(***************************************************************************)
(* Lyrics.compute_timing (kar.py:402-424).  syllable.ms = int(ts.ms) is a  *)
(* whole number of milliseconds; the note times of a track keep ts.ms      *)
(* itself, the numerator over 1000 * click_units_per_quarter.              *)
(***************************************************************************)
IntMs(mf, t) ==
  IF t.ms = 0 THEN 0 ELSE t.ms \div (1000 * The(mf.click_units_per_quarter))

RECURSIVE TimeSyllables(_, _, _, _)
TimeSyllables(mf, list, k, t) ==
  IF k > Len(list) THEN [list |-> list, exc |-> None]
  ELSE LET Advanced(t1) ==
             IF t1.exc # None THEN [list |-> list, exc |-> t1.exc]
             ELSE TimeSyllables(mf, [list EXCEPT ![k].ms = Some(IntMs(mf, t1))], k + 1, t1)
       IN Advanced(AdvanceToClick(mf, t, list[k].click))

\* the body of the loop over track_list (kar.py:412-424) for one track
TimeTrackNotes(mf, track_desc) ==
  LET Last(d1, t2) ==
        IF t2.exc # None THEN [track |-> d1, exc |-> t2.exc]
        ELSE [track |-> IF track_desc.last_note_click # None
                        THEN [d1 EXCEPT !.last_note_ms = Some(t2.ms)] ELSE d1,
              exc |-> None]
      First(t1) ==
        IF t1.exc # None THEN [track |-> track_desc, exc |-> t1.exc]
        ELSE Last(IF track_desc.first_note_click # None
                  THEN [track_desc EXCEPT !.first_note_ms = Some(t1.ms)] ELSE track_desc,
                  IF track_desc.last_note_click # None
                  THEN AdvanceToClick(mf, t1, The(track_desc.last_note_click)) ELSE t1)
  IN First(IF track_desc.first_note_click # None
           THEN AdvanceToClick(mf, NewMidiTimestamp, The(track_desc.first_note_click))
           ELSE NewMidiTimestamp)

RECURSIVE TimeTracks(_, _)
TimeTracks(mf, k) ==
  IF k > Len(mf.track_list) THEN [mf |-> mf, exc |-> None]
  ELSE LET Timed(r) ==
             IF r.exc # None THEN [mf |-> mf, exc |-> r.exc]
             ELSE TimeTracks([mf EXCEPT !.track_list[k] = r.track], k + 1)
       IN Timed(TimeTrackNotes(mf, mf.track_list[k]))

\* midifile.lyrics.compute_timing(midifile), midifile.lyrics = Some(ref)
ComputeTiming(mf) ==
  LET Timed(ref, timed) ==
        IF timed.exc # None THEN [mf |-> mf, exc |-> timed.exc]
        ELSE TimeTracks([mf EXCEPT !.track_list[ref[1]][ref[2]].list = timed.list], 1)
  IN Timed(The(mf.lyrics),
           TimeSyllables(mf, Deref(mf.track_list, The(mf.lyrics)).list, 1,
                         NewMidiTimestamp))

(***************************************************************************)
(* Lyrics.analyze_spaces (kar.py:426-439) with _group_syllables_into_lines *)
(* (441-457), _count_gaps (459-475) and _insert_spaces (477-485).  Two     *)
(* neighbours of the list are in one line group exactly when their line    *)
(* attributes are equal.                                                   *)
(***************************************************************************)
SameLinePairs(list) == {i \in 1 .. Len(list) - 1 : list[i].line = list[i + 1].line}

GapPairs(list) ==
  {i \in SameLinePairs(list) : \/ RStrip(list[i].text) # list[i].text
                               \/ LStrip(list[i + 1].text) # list[i + 1].text}

InsertSpaces(list) ==
  [i \in 1 .. Len(list) |->
     IF i \in SameLinePairs(list)
     THEN IF list[i].text # <<>> /\ list[i].text[Len(list[i].text)] = Ch_Hyphen
          THEN [list[i] EXCEPT !.text = SubSeq(@, 1, Len(@) - 1)]
          ELSE [list[i] EXCEPT !.text = Append(@, Ch_Space)]
     ELSE list[i]]

AnalyzeSpaces_AtMostTenth(list) ==
  LET total_num_syls == Cardinality(SameLinePairs(list))
      total_num_gaps == Cardinality(GapPairs(list))
  IN IF total_num_syls # 0 /\ 10 * total_num_gaps <= total_num_syls
     THEN InsertSpaces(list) ELSE list

AnalyzeSpaces(list) ==
  LET total_num_syls == Cardinality(SameLinePairs(list))
      total_num_gaps == Cardinality(GapPairs(list))
  IN IF total_num_syls # 0 /\ 10 * total_num_gaps < total_num_syls
     THEN InsertSpaces(list) ELSE list

\* _compute_note_bounds without its comparisons: the last track that has a
\* value wins
ComputeNoteBounds_LastWins(track_list) ==
  LET firsts == {k \in 1 .. Len(track_list) : track_list[k].first_note_ms # None}
      lasts == {k \in 1 .. Len(track_list) : track_list[k].last_note_ms # None}
  IN [earliest_note_ms |-> IF firsts = {} THEN None
                           ELSE track_list[CHOOSE m \in firsts : \A x \in firsts : m >= x]
                                  .first_note_ms,
      last_note_ms |-> IF lasts = {} THEN None
                       ELSE track_list[CHOOSE m \in lasts : \A x \in lasts : m >= x]
                              .last_note_ms]

\* _compute_note_bounds (kar.py:681-692)
ComputeNoteBounds(track_list) ==
  LET firsts == {The(track_list[k].first_note_ms) :
                   k \in {j \in 1 .. Len(track_list) : track_list[j].first_note_ms # None}}
      lasts == {The(track_list[k].last_note_ms) :
                  k \in {j \in 1 .. Len(track_list) : track_list[j].last_note_ms # None}}
  IN [earliest_note_ms |-> IF firsts = {} THEN None
                           ELSE Some(CHOOSE m \in firsts : \A x \in firsts : m <= x),
      last_note_ms |-> IF lasts = {} THEN None
                       ELSE Some(CHOOSE m \in lasts : \A x \in lasts : m >= x)]

(***************************************************************************)
(* midi_parse_data (kar.py:581-626) in three parts: the header chunk, the  *)
(* loop of _parse_midi_tracks (kar.py:629-646), and everything after it.   *)
(* A part yields the exception it raises, or the error message it hands to *)
(* error_notify_callback before returning None.                            *)
(***************************************************************************)
ParseHeader(data, mf) ==
  LET packet == Read(data, 0, 8)
      chunk_type == SubSeq(packet.bytes, 1, 4)
      length == BigEndian(SubSeq(packet.bytes, 5, 8))
      header == Read(data, packet.pos, length)
      division == BigEndian(SubSeq(header.bytes, 5, 6))
  IN IF Len(packet.bytes) # 8
     THEN [pos |-> packet.pos, mf |-> mf, exc |-> Some("struct.error"), error |-> None]
     ELSE IF chunk_type # Str_MThd
     THEN [pos |-> packet.pos, mf |-> mf, exc |-> None,
           error |-> Some("No MIDI Header chunk at start")]
     ELSE IF Len(header.bytes) # 6
     THEN [pos |-> header.pos, mf |-> mf, exc |-> Some("struct.error"), error |-> None]
     ELSE [pos |-> header.pos,
           mf |-> IF BitAnd(division, 32768) # 0
                  THEN [mf EXCEPT !.click_units_per_smpte = Some(BitAnd(division, 255)),
                                  !.smpte_frames_per_sec = Some(BitAnd(division, 32512))]
                  ELSE [mf EXCEPT !.click_units_per_quarter = Some(BitAnd(division, 32767))],
           exc |-> None, error |-> None]

\* the part of midi_parse_data after the track loop (kar.py:607-626)
FinishParse(mf) ==
  LET Bounded(spaced, bounds) ==
        [mf |-> [spaced EXCEPT !.earliest_note_ms = bounds.earliest_note_ms,
                               !.last_note_ms = bounds.last_note_ms],
         result |-> "MidiFile", exc |-> None, error |-> None]
      Spaced(spaced) == Bounded(spaced, ComputeNoteBounds(spaced.track_list))
      Timed(ref, timed) ==
        IF timed.exc # None
        THEN [mf |-> timed.mf, result |-> "raised", exc |-> timed.exc, error |-> None]
        ELSE Spaced([timed.mf EXCEPT
                       !.track_list[ref[1]][ref[2]].list = AnalyzeSpaces(@)])
      Selected(lyrics) ==
        IF lyrics = None
        THEN [mf |-> [mf EXCEPT !.lyrics = None], result |-> "None", exc |-> None,
              error |-> Some("No lyrics in the track")]
        ELSE Timed(The(lyrics), ComputeTiming([mf EXCEPT !.lyrics = lyrics]))
  IN Selected(SelectBestLyrics(mf.track_list))

\* the 8-byte chunk header read at the top of the loop of _parse_midi_tracks;
\* a short read ends the loop
ParseTrackChunk(data, pos) ==
  LET packet == Read(data, pos, 8)
      length == BigEndian(SubSeq(packet.bytes, 5, 8))
  IN [pos |-> packet.pos, more |-> Len(packet.bytes) = 8,
      length |-> IF Len(packet.bytes) = 8 THEN length ELSE 0]

RECURSIVE ParseMidiTracksFrom(_, _, _, _)
ParseMidiTracksFrom(data, pos, mf, track_num) ==
  LET Parsed(parsed) ==
        IF parsed.exc # None THEN [mf |-> parsed.mf, exc |-> parsed.exc]
        ELSE IF parsed.track = None THEN [mf |-> parsed.mf, exc |-> None]
        ELSE ParseMidiTracksFrom(data, parsed.pos,
                                 [parsed.mf EXCEPT
                                    !.track_list = Append(@, The(parsed.track))],
                                 track_num + 1)
      Chunk(chunk) ==
        IF ~chunk.more THEN [mf |-> mf, exc |-> None]
        ELSE Parsed(MidiParseTrack(data, chunk.pos, mf, track_num, chunk.length))
  IN Chunk(ParseTrackChunk(data, pos))

\* the whole call: what it returns or raises, and the MidiFile it built
MidiParseData(data) ==
  LET Finished(fin) == [result |-> fin.result, exc |-> fin.exc, mf |-> fin.mf]
      Tracks(tracks) ==
        IF tracks.exc # None
        THEN [result |-> "raised", exc |-> tracks.exc, mf |-> tracks.mf]
        ELSE Finished(FinishParse(tracks.mf))
      Header(head) ==
        IF head.exc # None THEN [result |-> "raised", exc |-> head.exc, mf |-> head.mf]
        ELSE IF head.error # None THEN [result |-> "None", exc |-> None, mf |-> head.mf]
        ELSE Tracks(ParseMidiTracksFrom(data, head.pos, head.mf, 0))
  IN Header(ParseHeader(data, NewMidiFile))

(***************************************************************************)
(* MIDI files as inputs: a division word and, per track, its events.       *)
(***************************************************************************)
BE16(n) == <<n \div 256, n % 256>>
BE32(n) == <<n \div 16777216, (n \div 65536) % 256, (n \div 256) % 256, n % 256>>

\* a meta event <delta> FF <code> <length> <payload>
MetaEvent(delta, code, payload) == <<delta, 255, code, Len(payload)>> \o payload

Str_la == <<108, 97>>
E_EndOfTrack == MetaEvent(0, 47, <<>>)
E_Tempo == <<0, 255, 81, 3, 7, 161, 32>>
E_TimeSignature == <<0, 255, 88, 4, 4, 2, 24, 8>>
E_TitleWords == MetaEvent(0, 3, Str_Words)
E_Text == MetaEvent(2, 1, <<Ch_Slash>> \o Str_la)
E_Lyric == MetaEvent(2, 5, Str_la)
E_NoteOn == <<0, 144, 60, 64>>
\* delta time 128 in two bytes, then a note-on by running status
E_RunningNote == <<129, 0, 62, 64>>
E_NoteOff == <<4, 128, 60, 0>>
E_Sysex == <<0, 240, 2, 1, 247>>

TrackChunk(events) ==
  LET body == Flatten(events) IN Str_MTrk \o BE32(Len(body)) \o body

RECURSIVE TrackChunks(_)
TrackChunks(tracks) ==
  IF tracks = <<>> THEN <<>> ELSE TrackChunk(Head(tracks)) \o TrackChunks(Tail(tracks))

HeaderChunk(type, division) == type \o BE32(6) \o BE16(1) \o BE16(2) \o BE16(division)

Encode(file) == HeaderChunk(file.type, file.division) \o TrackChunks(file.tracks)

(***************************************************************************)
(* Specification SpecSel: _select_best_lyrics over track lists produced by *)
(* midi_parse_track from tracks with or without a title and with 0, 1 or 2 *)
(* text and lyric events.  sel is the loop state: i tracks visited, the    *)
(* best key and list so far, the candidate chosen for each visited track,  *)
(* the titles the tracks were written with, and whether it has returned.   *)
(***************************************************************************)
MaxTracks == 2

EventCounts == {0, 1, 2}
Titles == {<<>>, Str_Words, Str_Words \o <<Ch_Space>>}

Repeat(event, n) == [k \in 1 .. n |-> event]

\* the events of a track: an optional title, nt text events, nl lyric events
TrackEvents(title, nt, nl) ==
  (IF title = <<>> THEN <<>> ELSE <<MetaEvent(0, 3, title)>>)
    \o Repeat(E_Text, nt) \o Repeat(E_Lyric, nl) \o <<E_EndOfTrack>>

TrackShapes == {<<title, nt, nl>> : title \in Titles, nt \in EventCounts, nl \in EventCounts}

\* a "Words" track with 5 events and an untitled track with 8, in both orders
ExampleShapeLists ==
  {<< <<Str_Words, 5, 0>>, <<(<<>>), 0, 8>> >>, << <<(<<>>), 0, 8>>, <<Str_Words, 5, 0>> >>}

ShapeLists ==
  UNION {[1 .. n -> TrackShapes] : n \in 0 .. MaxTracks} \cup ExampleShapeLists

\* the TrackDesc midi_parse_track builds for the k-th shape of a list
ParsedTrack(shape, k) ==
  LET body == Flatten(TrackEvents(shape[1], shape[2], shape[3]))
  IN The(MidiParseTrack(body, 0, NewMidiFile, k - 1, Len(body)).track)

InitSel ==
  /\ CdgIdle /\ TsIdle /\ ParseIdle /\ AppIdle
  /\ \E shapes \in ShapeLists :
       /\ midifile = [NewMidiFile EXCEPT
                        !.track_list = [k \in 1 .. Len(shapes) |-> ParsedTrack(shapes[k], k)]]
       /\ sel = [i |-> 0, best_sort_key |-> None, best_lyrics |-> None, chosen |-> <<>>,
                 titles |-> [k \in 1 .. Len(shapes) |-> shapes[k][1]],
                 returned |-> FALSE]

\* one iteration of the for loop of _select_best_lyrics
SelectTrackAct ==
  /\ ~sel.returned
  /\ sel.i < Len(midifile.track_list)
  /\ LET best == SelectIter([best_sort_key |-> sel.best_sort_key,
                             best_lyrics |-> sel.best_lyrics],
                            midifile.track_list, sel.i + 1)
     IN sel' = [sel EXCEPT
                  !.i = @ + 1,
                  !.best_sort_key = best.best_sort_key,
                  !.best_lyrics = best.best_lyrics,
                  !.chosen = Append(@, ChooseLyricsFromTrack(midifile.track_list[sel.i + 1]))]
  /\ UNCHANGED <<midifile, ts, ts_calls, parse, cdg_vars, app_vars>>

\* return best_lyrics
SelectReturnAct ==
  /\ ~sel.returned
  /\ sel.i = Len(midifile.track_list)
  /\ sel' = [sel EXCEPT !.returned = TRUE]
  /\ UNCHANGED <<midifile, ts, ts_calls, parse, cdg_vars, app_vars>>

NextSel ==
  \/ SelectTrackAct
  \/ SelectReturnAct

SpecSel == InitSel /\ [][NextSel]_vars

\* the candidate of the k-th track and its (named "Words", size) pair
Candidate(k) == ChooseLyricsFromTrack(midifile.track_list[k])

CandidateKey(k) ==
  <<midifile.track_list[k].lyrics_track,
    Len(midifile.track_list[k][The(Candidate(k))].list)>>

\* lexicographic order on the pairs, FALSE before TRUE
KeyLeq(a, b) == (~a[1] /\ b[1]) \/ (a[1] = b[1] /\ a[2] <= b[2])

WithCandidate == {k \in 1 .. Len(midifile.track_list) : Candidate(k) # None}

(***************************************************************************)
(* C7: the list returned is the candidate with the greatest pair (track    *)
(* titled exactly "Words", number of entries), the earliest such track on  *)
(* a tie; a "Words" track with 5 entries wins over an untitled one with 8; *)
(* nothing is returned only when no track has a candidate.                 *)
(***************************************************************************)
C7_BestCandidateSelected ==
  sel.returned =>
    /\ \A k \in 1 .. Len(midifile.track_list) :
         midifile.track_list[k].lyrics_track <=> sel.titles[k] = Str_Words
    /\ sel.best_lyrics = None <=> WithCandidate = {}
    /\ WithCandidate # {} =>
         \E k \in WithCandidate :
           /\ sel.best_lyrics = Some(<<k, The(Candidate(k))>>)
           /\ \A j \in WithCandidate :
                /\ KeyLeq(CandidateKey(j), CandidateKey(k))
                /\ CandidateKey(j) = CandidateKey(k) => k <= j
    /\ \A k \in WithCandidate :
         (CandidateKey(k) = <<TRUE, 5>>
            /\ \A j \in WithCandidate \ {k} : CandidateKey(j) = <<FALSE, 8>>)
         => sel.best_lyrics = Some(<<k, The(Candidate(k))>>)

\* two tracks tie on the greatest pair and the earlier one was returned
C7_Witness ==
  /\ sel.returned
  /\ \E j, k \in WithCandidate :
       /\ j < k
       /\ CandidateKey(j) = CandidateKey(k)
       /\ CandidateKey(j)[1]
       /\ sel.best_lyrics = Some(<<j, The(Candidate(j))>>)

\* the candidate a track of nt text and nl lyric entries has when the lyric
\* list is preferred under the relation prefer(nl, nt)
CandidateWhen(prefer, nt, nl) ==
  IF nt > 0 /\ nl > 0 THEN (IF prefer THEN Some("lyric_events") ELSE Some("text_events"))
  ELSE IF nt > 0 THEN Some("text_events")
  ELSE IF nl > 0 THEN Some("lyric_events")
  ELSE None

(***************************************************************************)
(* C8 as stated: the candidate of a track is its lyric-event list when     *)
(* both lists are non-empty and the lyric-event list has at least as many  *)
(* entries as the text-event list, else whichever list is non-empty, and   *)
(* none only when both are empty.                                          *)
(***************************************************************************)
C8_LyricListWhenNotShorter ==
  \A k \in 1 .. Len(sel.chosen) :
    LET nt == Len(midifile.track_list[k].text_events.list)
        nl == Len(midifile.track_list[k].lyric_events.list)
    IN sel.chosen[k] = CandidateWhen(nl >= nt, nt, nl)

(***************************************************************************)
(* C8 amended: the lyric-event list is the candidate only when it has      *)
(* strictly more entries than the text-event list; with equal sizes the    *)
(* text-event list is the candidate.                                       *)
(***************************************************************************)
C8_LyricListWhenLonger ==
  \A k \in 1 .. Len(sel.chosen) :
    LET nt == Len(midifile.track_list[k].text_events.list)
        nl == Len(midifile.track_list[k].lyric_events.list)
    IN sel.chosen[k] = CandidateWhen(nl > nt, nt, nl)

\* a visited track with as many lyric entries as text entries
C8_Witness ==
  \E k \in 1 .. Len(sel.chosen) :
    /\ Len(midifile.track_list[k].text_events.list) = 2
    /\ Len(midifile.track_list[k].lyric_events.list) = 2
    /\ sel.chosen[k] = Some("text_events")

(***************************************************************************)
(* Specification SpecParse: midi_parse_data on every prefix of a few MIDI  *)
(* files.  parse holds the call: the file the data was cut from and the    *)
(* cut (input), the data, the read position, the place in the code (pc),   *)
(* the track being read, its declared length, the track number, the result *)
(* ("pending", "None", "MidiFile" or "raised"), the exception raised and   *)
(* the messages given to error_notify_callback.                            *)
(***************************************************************************)
Str_RIFF == <<82, 73, 70, 70>>
QuarterDivision == 96
SmpteDivision == 59176

LyricTrack == <<E_TitleWords, E_Text, E_Lyric, E_EndOfTrack>>
TempoTrack == <<E_Tempo, E_TimeSignature, E_NoteOn, E_RunningNote, E_NoteOff, E_Sysex,
                E_EndOfTrack>>
NoteTrack == <<E_Tempo, E_NoteOn, E_NoteOff, E_EndOfTrack>>

MidiFiles ==
  {[type |-> Str_MThd, division |-> QuarterDivision, tracks |-> <<LyricTrack, TempoTrack>>],
   [type |-> Str_MThd, division |-> QuarterDivision, tracks |-> <<NoteTrack, LyricTrack>>],
   [type |-> Str_MThd, division |-> QuarterDivision, tracks |-> <<NoteTrack>>],
   [type |-> Str_RIFF, division |-> QuarterDivision, tracks |-> <<NoteTrack>>],
   [type |-> Str_MThd, division |-> SmpteDivision, tracks |-> <<LyricTrack>>]}

\* every prefix of every file
ParseInputs ==
  UNION {{[file |-> f, cut |-> n] : n \in 0 .. Len(Encode(f))} : f \in MidiFiles}

InitParse ==
  /\ CdgIdle /\ TsIdle /\ SelIdle /\ AppIdle
  /\ midifile = NewMidiFile
  /\ \E input \in ParseInputs :
       parse = [input |-> input,
                midi_data |-> SubSeq(Encode(input.file), 1, input.cut),
                pos |-> 0, pc |-> "header", track |-> None, length |-> 0, track_num |-> 0,
                result |-> "pending", exc |-> None, errors |-> <<>>]

\* midi_parse_data up to the call of _parse_midi_tracks (kar.py:581-606)
ParseHeaderAct ==
  /\ parse.pc = "header"
  /\ \E head \in {ParseHeader(parse.midi_data, midifile)} :
        /\ midifile' = head.mf
        /\ parse' = [parse EXCEPT
                       !.pos = head.pos,
                       !.pc = IF head.exc # None THEN "raised"
                              ELSE IF head.error # None THEN "done" ELSE "tracks",
                       !.result = IF head.exc # None THEN "raised"
                                  ELSE IF head.error # None THEN "None" ELSE @,
                       !.exc = head.exc,
                       !.errors = IF head.error # None THEN Append(@, The(head.error)) ELSE @]
  /\ UNCHANGED <<ts, ts_calls, sel, cdg_vars, app_vars>>

\* the top of the loop of _parse_midi_tracks: the next chunk header, and the
\* track appended at once when its declared length is 0
ParseTrackChunkAct ==
  /\ parse.pc = "tracks"
  /\ \E chunk \in {ParseTrackChunk(parse.midi_data, parse.pos)},
        track \in {TrackDesc(parse.track_num)} :
        IF ~chunk.more
        THEN /\ parse' = [parse EXCEPT !.pos = chunk.pos, !.pc = "finish"]
             /\ UNCHANGED midifile
        ELSE IF track.bytes_read < chunk.length
        THEN /\ parse' = [parse EXCEPT !.pos = chunk.pos, !.pc = "events",
                                       !.track = Some(track), !.length = chunk.length]
             /\ UNCHANGED midifile
        ELSE /\ parse' = [parse EXCEPT !.pos = chunk.pos, !.track_num = @ + 1]
             /\ midifile' = [midifile EXCEPT !.track_list = Append(@, track)]
  /\ UNCHANGED <<ts, ts_calls, sel, cdg_vars, app_vars>>

\* one pass of the while loop of midi_parse_track; when it is the last one,
\* the return to _parse_midi_tracks, which appends the track or stops
MidiProcessEventAct ==
  /\ parse.pc = "events"
  /\ \E ev \in {MidiProcessEvent(parse.midi_data, parse.pos, The(parse.track),
                                   midifile)} :
     \E track \in {[ev.track EXCEPT !.bytes_read = @ + ev.n]} :
        IF ev.exc # None
        THEN /\ parse' = [parse EXCEPT !.pos = ev.pos, !.pc = "raised", !.result = "raised",
                                       !.exc = ev.exc, !.track = Some(ev.track)]
             /\ midifile' = ev.mf
        ELSE IF ev.n = 0 \/ ev.n = -1
        THEN /\ parse' = [parse EXCEPT !.pos = ev.pos, !.pc = "finish", !.track = None]
             /\ midifile' = ev.mf
        ELSE IF track.bytes_read < parse.length
        THEN /\ parse' = [parse EXCEPT !.pos = ev.pos, !.track = Some(track)]
             /\ midifile' = ev.mf
        ELSE /\ parse' = [parse EXCEPT !.pos = ev.pos, !.pc = "tracks", !.track = None,
                                       !.track_num = @ + 1]
             /\ midifile' = [ev.mf EXCEPT !.track_list = Append(@, track)]
  /\ UNCHANGED <<ts, ts_calls, sel, cdg_vars, app_vars>>

\* midi_parse_data after the track loop (kar.py:607-626)
FinishParseAct ==
  /\ parse.pc = "finish"
  /\ \E fin \in {FinishParse(midifile)} :
        /\ midifile' = fin.mf
        /\ parse' = [parse EXCEPT
                       !.pc = IF fin.exc # None THEN "raised" ELSE "done",
                       !.result = fin.result,
                       !.exc = fin.exc,
                       !.errors = IF fin.error # None THEN Append(@, The(fin.error)) ELSE @]
  /\ UNCHANGED <<ts, ts_calls, sel, cdg_vars, app_vars>>

NextParse ==
  \/ ParseHeaderAct
  \/ ParseTrackChunkAct
  \/ MidiProcessEventAct
  \/ FinishParseAct

SpecParse == InitParse /\ [][NextParse]_vars

\* the call has returned or raised
ParseEnded == parse.pc \in {"done", "raised"}

BeginsWithMThd(data) == Len(data) >= 4 /\ SubSeq(data, 1, 4) = Str_MThd

\* a text (0x01) or lyric (0x05) meta event
IsTextOrLyric(event) == Len(event) >= 3 /\ event[2] = 255 /\ event[3] \in {1, 5}

\* the data holds the whole header chunk, and no track of the file it was
\* cut from has a text or lyric event
HeaderAndNoLyrics ==
  /\ BeginsWithMThd(parse.midi_data)
  /\ parse.input.cut >= Len(HeaderChunk(parse.input.file.type, parse.input.file.division))
  /\ \A k \in 1 .. Len(parse.input.file.tracks) :
       \A e \in 1 .. Len(parse.input.file.tracks[k]) :
         ~IsTextOrLyric(parse.input.file.tracks[k][e])

(***************************************************************************)
(* C9: midi_parse_data returns None after a message to the error callback, *)
(* and does not raise, when the data does not begin with "MThd" or when no *)
(* track of the file has a text or lyric entry; a MidiFile it returns has  *)
(* a non-empty lyrics list whose syllables all have a time.                *)
(***************************************************************************)
C9_RejectsWithoutRaising ==
  ParseEnded =>
    /\ (~BeginsWithMThd(parse.midi_data) \/ HeaderAndNoLyrics)
       => (parse.result = "None" /\ parse.errors # <<>>)
    /\ parse.result = "MidiFile"
       => /\ midifile.lyrics # None
          /\ LET list == Deref(midifile.track_list, The(midifile.lyrics)).list
             IN /\ list # <<>>
                /\ \A k \in 1 .. Len(list) : list[k].ms # None

\* offset in the encoded file of the first byte of track chunk k
RECURSIVE ChunkStart(_, _)
ChunkStart(file, k) ==
  IF k = 1 THEN Len(HeaderChunk(file.type, file.division))
  ELSE ChunkStart(file, k - 1) + Len(TrackChunk(file.tracks[k - 1]))

\* offset of the first byte of event e of track k
EventStart(file, k, e) ==
  ChunkStart(file, k) + 8 + Len(Flatten(SubSeq(file.tracks[k], 1, e - 1)))

\* the tracks in which the cut falls strictly inside an event
CutTracks(input) ==
  {k \in 1 .. Len(input.file.tracks) :
     \E e \in 1 .. Len(input.file.tracks[k]) :
       /\ EventStart(input.file, k, e) < input.cut
       /\ input.cut < EventStart(input.file, k, e) + Len(input.file.tracks[k][e])}

(***************************************************************************)
(* C10: when the data ends inside an event of track k the call does not    *)
(* raise, and its outcome (the value returned and the MidiFile built, with *)
(* its track list, chosen lyrics and times) is the outcome for the file    *)
(* made of the tracks before k alone.                                      *)
(***************************************************************************)
C10_TruncatedTrackDropped ==
  ParseEnded =>
    \A k \in CutTracks(parse.input) :
      LET kept == [parse.input.file EXCEPT !.tracks = SubSeq(@, 1, k - 1)]
          expected == MidiParseData(Encode(kept))
      IN parse.input.file.type = Str_MThd
         => /\ parse.result # "raised"
            /\ parse.result = expected.result
            /\ midifile = expected.mf

(***************************************************************************)
(*               Further properties of the CDG decoder                     *)
(***************************************************************************)

\* the packet most recently handed to __cdg_packet_process since the last
\* rewind, or None
LastPacket ==
  IF applied >= 1
  THEN Some(CdgPacket(SubSeq(cdg_data, PacketSize * (applied - 1) + 1,
                             PacketSize * applied)))
  ELSE None

\* the packet is dispatched to the handler of instruction inst
\* (__cdg_packet_process, cdg_aux.py:232-256)
HasInstruction(packd, inst) ==
  /\ BitAnd(packd.command, CDG_MASK) = CDG_COMMAND
  /\ BitAnd(packd.instruction, CDG_MASK) = inst

\* every cell of pixel_colours holds c, and so do the preset and border indices
BufferHolds(r, c) ==
  /\ \A p \in Pixels : r.cdg_pixel_colours[p] = c
  /\ r.cdg_preset_colour_index = c
  /\ r.cdg_border_colour_index = c

(***************************************************************************)
(* C11: after a memory-preset packet with colour index c has been          *)
(* processed, whatever came before it, every cell of pixel_colours is c    *)
(* and preset_colour_index = border_colour_index = c; and whenever         *)
(* just_cleared_colour_index = c the whole buffer and the border index     *)
(* hold c.                                                                 *)
(***************************************************************************)
C11_MemoryPresetFillsBuffer ==
  /\ (LastPacket # None /\ HasInstruction(The(LastPacket), CDG_INST_MEMORY_PRESET))
       => BufferHolds(reader, BitAnd(D(The(LastPacket), 0), 15))
  /\ reader.just_cleared_colour_index # NoColour
       => BufferHolds(reader, reader.just_cleared_colour_index)

(***************************************************************************)
(* A second family of CDG buffers, exercising the colour-table loads, the  *)
(* XOR tile block and the copy scroll.  The reader is driven by the same   *)
(* operations as in Spec.                                                  *)
(***************************************************************************)
\* slots 8..15
P_LoadHigh ==
  Packet24(CDG_COMMAND, CDG_INST_LOAD_COL_TBL_8_15,
           <<1, 1, 2, 2, 3, 3, 4, 4, 5, 5, 6, 6, 7, 7, 8, 8>>)
\* clear to colour 9, a slot of the high half of the table
P_MemoryPresetHigh == Packet24(CDG_COMMAND, CDG_INST_MEMORY_PRESET, <<9>>)
\* XOR block at column 1, row 2 (the block of P_TileBlock), colours 5 / 10
P_TileBlockXorIn ==
  Packet24(CDG_COMMAND, CDG_INST_TILE_BLOCK_XOR, <<5, 10, 1, 2, 32, 16>>)
\* normal block at column 2, row 3, colours 1 / 6
P_TileBlockElsewhere ==
  Packet24(CDG_COMMAND, CDG_INST_TILE_BLOCK, <<1, 6, 2, 3, 16, 48>>)
\* copy scroll with direction codes h_s_cmd, v_s_cmd and offsets h_offset, 0
P_ScrollCopy(h_s_cmd, v_s_cmd, h_offset) ==
  Packet24(CDG_COMMAND, CDG_INST_SCROLL_COPY,
           <<0, 16 * h_s_cmd + h_offset, 16 * v_s_cmd>>)

\* the number of equal scroll steps after which a wrapped axis is back
\* where it started (source: 300 / 6 = 50 and 216 / 12 = 18)
ScrollPeriod(size, step) ==
  CHOOSE n \in 1 .. size : /\ (n * step) % size = 0
                           /\ \A m \in 1 .. n - 1 : (m * step) % size # 0
HScrollPeriod == ScrollPeriod(CDG_FULL_WIDTH, BlockW)
VScrollPeriod == ScrollPeriod(CDG_FULL_HEIGHT, BlockH)

\* up to MaxLoadPackets packets that load the table and paint
MaxLoadPackets == 2
LoadAlphabet == {P_LoadLow, P_LoadHigh, P_MemoryPresetHigh, P_TileBlock}
LoadStreams ==
  {Flatten(ps) : ps \in UNION {[1 .. n -> LoadAlphabet] : n \in 0 .. MaxLoadPackets}}

\* an XOR block twice, with at most one packet in between
XorStreams ==
  {Flatten(pre \o <<x>> \o mid \o <<x>>) :
     pre \in {<<>>, <<P_TileBlock>>, <<P_MemoryPreset>>},
     x \in {P_TileBlockXorIn, P_TileBlockXor},
     mid \in {<<>>, <<P_LoadLow>>, <<P_TileBlockElsewhere>>, <<P_BorderPreset>>,
              <<P_TileBlock>>}}

\* a painted screen, then a full period of copy scrolls in one direction;
\* the horizontal offset alternates between the packets
ScrollRun(h_s_cmd, v_s_cmd, n) ==
  [i \in 1 .. n |-> P_ScrollCopy(h_s_cmd, v_s_cmd, i % 2)]
ScrollStreams ==
  {Flatten(pre \o run) :
     pre \in {<<P_LoadLow, P_TileBlock>>, <<P_MemoryPreset, P_TileBlock, P_BorderPreset>>},
     run \in {ScrollRun(1, 0, HScrollPeriod), ScrollRun(2, 0, HScrollPeriod),
              ScrollRun(0, 1, VScrollPeriod), ScrollRun(0, 2, VScrollPeriod),
              ScrollRun(1, 2, VScrollPeriod)}}

CdgStreams == LoadStreams \cup XorStreams \cup ScrollStreams

InitStream ==
  /\ MidiIdle /\ AppIdle
  /\ cdg_data \in CdgStreams
  /\ reader = NewReader
  /\ ret = None
  /\ call_pos = 0
  /\ applied = 0
  /\ shown = None
  /\ op = "init"

SpecStream == InitStream /\ [][Next]_vars

\* the decoder after the first k packets of the buffer
After(k) == FoldPackets(NewReader, cdg_data, k)

\* the k-th packet of the buffer
PacketAt(k) == CdgPacket(SubSeq(cdg_data, PacketSize * (k - 1) + 1, PacketSize * k))

\* the last operation was a do_packets call that processed LastPacket
JustApplied == op = "do_packets" /\ call_pos < applied * PacketSize

\* the first slot a load-colour-table packet writes
LoadStart(packd) ==
  IF BitAnd(packd.instruction, CDG_MASK) = CDG_INST_LOAD_COL_TBL_0_7 THEN 0 ELSE 8

IsLoadColourTable(packd) ==
  \/ HasInstruction(packd, CDG_INST_LOAD_COL_TBL_0_7)
  \/ HasInstruction(packd, CDG_INST_LOAD_COL_TBL_8_15)

(***************************************************************************)
(* C12: a load-colour-table packet leaves every cell of pixel_colours      *)
(* unchanged, changes only colour-table slots 0..7 (low) or 8..15 (high),  *)
(* makes every surface pixel whose index is k show the new value of slot   *)
(* k, and marks all tiles dirty, so that the next get_dirty_tiles returns  *)
(* every tile.                                                             *)
(***************************************************************************)
C12_LoadColourTable ==
  (LastPacket # None /\ IsLoadColourTable(The(LastPacket))) =>
    LET packd == The(LastPacket)
        start == LoadStart(packd)
        before == After(applied - 1)
    IN /\ reader.cdg_pixel_colours = before.cdg_pixel_colours
       /\ \A k \in 0 .. COLOUR_TABLE_SIZE - 1 :
            IF k >= start /\ k < start + 8
            THEN reader.cdg_colour_table[k] = ColourEntry(packd, k - start)
            ELSE reader.cdg_colour_table[k] = before.cdg_colour_table[k]
       /\ \A p \in Pixels :
            reader.cdg_surfarray[p] = reader.cdg_colour_table[reader.cdg_pixel_colours[p]]
       /\ JustApplied => Range(GetDirtyTiles(reader).tiles) = Tiles

\* a high-table load has recoloured a screen cleared to a high slot, after
\* the tiles had been drained
C12_Witness ==
  /\ JustApplied
  /\ LastPacket # None
  /\ HasInstruction(The(LastPacket), CDG_INST_LOAD_COL_TBL_8_15)
  /\ shown # None
  /\ \E p \in Pixels : /\ reader.cdg_pixel_colours[p] >= 8
                       /\ reader.cdg_surfarray[p] # After(applied - 1).cdg_surfarray[p]

\* the pixels a tile-block packet writes: the block at its clamped origin
\* (__cdg_tile_block_common, cdg_aux.py:524-531)
TileBlockOf(packd) ==
  LET column_index == Min(BitAnd(D(packd, 2), 31) * BlockH, CDG_FULL_HEIGHT - BlockH)
      row_index == Min(BitAnd(D(packd, 3), 63) * BlockW, CDG_FULL_WIDTH - BlockW)
  IN {p \in Pixels : InBlock(p, row_index, column_index)}

IsTileBlock(packd) ==
  \/ HasInstruction(packd, CDG_INST_TILE_BLOCK)
  \/ HasInstruction(packd, CDG_INST_TILE_BLOCK_XOR)

\* a packet that neither writes nor moves the pixels of block: not a CDG
\* command, a table load, a transparent-colour definition, a tile block on
\* other pixels, or a border preset when the block is clear of the border
LeavesAlone(packd, block) ==
  \/ BitAnd(packd.command, CDG_MASK) # CDG_COMMAND
  \/ IsLoadColourTable(packd)
  \/ HasInstruction(packd, CDG_INST_DEF_TRANSP_COL)
  \/ IsTileBlock(packd) /\ TileBlockOf(packd) \cap block = {}
  \/ HasInstruction(packd, CDG_INST_BORDER_PRESET) /\ \A p \in block : ~InBorder(p)

\* packet k and the last packet are the same XOR tile block, and nothing
\* in between touched its pixels
XorTwice(k) ==
  /\ k < applied
  /\ PacketAt(k) = PacketAt(applied)
  /\ HasInstruction(PacketAt(k), CDG_INST_TILE_BLOCK_XOR)
  /\ \A m \in k + 1 .. applied - 1 : LeavesAlone(PacketAt(m), TileBlockOf(PacketAt(k)))

(***************************************************************************)
(* C13: applying the same XOR tile-block packet twice, with any packets in *)
(* between that do not write or move the pixels it touches, restores the   *)
(* index of every touched pixel to its value before the first application, *)
(* and all pixel indices stay within 0..15.                                *)
(***************************************************************************)
C13_XorTwiceRestores ==
  /\ \A k \in 1 .. applied :
       XorTwice(k) =>
         \A p \in TileBlockOf(PacketAt(k)) :
           reader.cdg_pixel_colours[p] = After(k - 1).cdg_pixel_colours[p]
  /\ \A p \in Pixels : reader.cdg_pixel_colours[p] \in 0 .. COLOUR_TABLE_SIZE - 1

\* the second XOR undid a change to a painted block, with a packet in between
C13_Witness ==
  \E k \in 1 .. applied :
    /\ XorTwice(k)
    /\ k + 1 < applied
    /\ \E p \in TileBlockOf(PacketAt(k)) :
         /\ After(k - 1).cdg_pixel_colours[p] # 0
         /\ After(k).cdg_pixel_colours[p] # After(k - 1).cdg_pixel_colours[p]
         /\ reader.cdg_pixel_colours[p] = After(k - 1).cdg_pixel_colours[p]

\* the direction codes of a scroll packet (__cdg_scroll_common, cdg_aux.py:358-364)
HScrollCmd(packd) == ShiftR(BitAnd(BitAnd(D(packd, 1), 63), 48), 4)
VScrollCmd(packd) == ShiftR(BitAnd(BitAnd(D(packd, 2), 63), 48), 4)

\* the last n packets are copy scrolls with horizontal code h and vertical code 0
HScrollRun(n, h) ==
  /\ applied >= n
  /\ \A m \in applied - n + 1 .. applied :
       /\ HasInstruction(PacketAt(m), CDG_INST_SCROLL_COPY)
       /\ HScrollCmd(PacketAt(m)) = h
       /\ VScrollCmd(PacketAt(m)) = 0

\* the last n packets are copy scrolls with vertical code v
VScrollRun(n, v) ==
  /\ applied >= n
  /\ \A m \in applied - n + 1 .. applied :
       /\ HasInstruction(PacketAt(m), CDG_INST_SCROLL_COPY)
       /\ VScrollCmd(PacketAt(m)) = v

(***************************************************************************)
(* C14: from any pixel buffer, a full period of consecutive copy scrolls   *)
(* of one block in the same horizontal direction with vertical code 0      *)
(* (source: 50 x 6 = 300 pixels) leaves pixel_colours exactly as it        *)
(* started; likewise a full period of copy scrolls of one block in the     *)
(* same vertical direction (source: 18 x 12 = 216).                        *)
(***************************************************************************)
C14_ScrollCopyRoundTrip ==
  /\ \A h \in {1, 2} :
       HScrollRun(HScrollPeriod, h) =>
         reader.cdg_pixel_colours = After(applied - HScrollPeriod).cdg_pixel_colours
  /\ \A v \in {1, 2} :
       VScrollRun(VScrollPeriod, v) =>
         reader.cdg_pixel_colours = After(applied - VScrollPeriod).cdg_pixel_colours

\* a painted, non-uniform buffer has come back after a full horizontal
\* period whose last step still moved pixels
C14_Witness ==
  /\ \E h \in {1, 2} : HScrollRun(HScrollPeriod, h)
  /\ reader.cdg_pixel_colours # After(applied - 1).cdg_pixel_colours
  /\ \E p, q \in Pixels : reader.cdg_pixel_colours[p] # reader.cdg_pixel_colours[q]

(***************************************************************************)
(*                  The CDG player's polling loop (cdg.py)                 *)
(*                                                                         *)
(* The playback position get_pos() + internal_offset_time + sync_delay_ms  *)
(* - pauseOffsetTime is an input of every poll: the clock, the audio       *)
(* buffer and the sync-delay keys (player.py:409-419) decide it.  The      *)
(* frame dump (STATE_CAPTURING) is off.                                    *)
(***************************************************************************)
PacketsPerSecond == 300
\* manager.options.fps: ms_per_update = 1000.0 / fps (cdg.py:273)
Fps == 200

\* positions polled, in ms
Positions == {-5, 0, 4, 7, 10, 20}

\* CdgPlayer.__init__ (cdg.py:225-273) on top of PykPlayer.__init__
NewCdgPlayer ==
  [state |-> "STATE_INIT",
   curr_pos |-> 0,
   LastPos |-> 0,
   cdgPacketsDue |-> 0,
   cdgReadPackets |-> 0,
   border_colour |-> None]

\* nothing has been polled since the last rewind
NewPollLog ==
  [pos |-> None, prev_pos |-> None, max_pos |-> None, monotone |-> TRUE,
   requested |-> 0, total |-> 0]

\* int((curr_pos * 300) / 1000) (cdg.py:397): below zero the quotient is
\* rounded down by an integer division and towards zero by int() of a float
PacketsDue(curr_pos) ==
  IF curr_pos >= 0 THEN {(curr_pos * PacketsPerSecond) \div 1000}
  ELSE {(curr_pos * PacketsPerSecond) \div 1000,
        0 - ((0 - curr_pos * PacketsPerSecond) \div 1000)}

\* cdg.py:397-404: the count handed to do_packets (none when it is not
\* positive) and the counters afterwards
CountPackets_TracksDue(p, due) ==
  LET num_packets == due - p.cdgReadPackets
  IN [num_packets |-> num_packets,
      player |-> [p EXCEPT !.cdgPacketsDue = due, !.cdgReadPackets = due]]

CountPackets(p, due) ==
  LET num_packets == due - p.cdgReadPackets
  IN [num_packets |-> num_packets,
      player |-> [p EXCEPT !.cdgPacketsDue = due,
                           !.cdgReadPackets = IF num_packets > 0 THEN @ + num_packets
                                              ELSE @]]

\* cdgDisplayUpdate (cdg.py:520-600): the border colour, then the drain
CdgDisplayUpdate(p, r) ==
  LET border_colour == GetBorderColour(r)
      changed == border_colour # p.border_colour
      r1 == IF changed /\ border_colour # None THEN MarkTilesDirty(r) ELSE r
  IN [player |-> IF changed THEN [p EXCEPT !.border_colour = border_colour] ELSE p,
      reader |-> GetDirtyTiles(r1).reader,
      view |-> View(r1)]

\* the record of a poll at position pos that asked for n packets
Polled(log, pos, n) ==
  [pos |-> Some(pos),
   prev_pos |-> log.pos,
   max_pos |-> IF log.max_pos = None THEN Some(pos) ELSE Some(Max(The(log.max_pos), pos)),
   monotone |-> log.monotone /\ (log.pos = None \/ The(log.pos) <= pos),
   requested |-> n,
   total |-> log.total + n]

PollInputs ==
  {Flatten(<<P_LoadLow, P_MemoryPreset, P_TileBlock>>),
   Flatten(<<P_MemoryPreset, P_BorderPreset>>) \o SubSeq(P_TileBlock, 1, 5)}

InitPoll ==
  /\ MidiIdle /\ BackendIdle /\ DbIdle /\ FnIdle
  /\ cdg_data \in PollInputs
  /\ reader = NewReader
  /\ ret = None
  /\ call_pos = 0
  /\ applied = 0
  /\ shown = None
  /\ op = "init"
  /\ player = NewCdgPlayer
  /\ poll_log = NewPollLog

\* PykPlayer.play (player.py:156-163)
PlayAct ==
  /\ player.state \in {"STATE_INIT", "STATE_NOT_PLAYING"}
  /\ player' = [player EXCEPT !.state = "STATE_PLAYING"]
  /\ op' = "play"
  /\ UNCHANGED <<cdg_data, reader, ret, call_pos, applied, shown, poll_log, backend, song_db,
                 fn_vars, midi_vars>>

\* PykPlayer.pause (player.py:166-174)
PauseAct ==
  /\ player.state \in {"STATE_PLAYING", "STATE_PAUSED"}
  /\ player' = [player EXCEPT !.state = IF @ = "STATE_PLAYING" THEN "STATE_PAUSED"
                                        ELSE "STATE_PLAYING"]
  /\ op' = "pause"
  /\ UNCHANGED <<cdg_data, reader, ret, call_pos, applied, shown, poll_log, backend, song_db,
                 fn_vars, midi_vars>>

\* PykPlayer.rewind (player.py:181-186) with CdgPlayer.do_rewind (cdg.py:330-343)
PlayerRewindAct ==
  /\ player.state \in {"STATE_PLAYING", "STATE_PAUSED", "STATE_NOT_PLAYING"}
  /\ player' = [player EXCEPT !.cdgReadPackets = 0, !.cdgPacketsDue = 0, !.LastPos = 0,
                              !.state = "STATE_NOT_PLAYING"]
  /\ reader' = Rewind(reader)
  /\ ret' = None
  /\ call_pos' = 0
  /\ applied' = 0
  /\ poll_log' = NewPollLog
  /\ op' = "rewind"
  /\ UNCHANGED <<cdg_data, shown, backend, song_db, fn_vars, midi_vars>>

\* CdgPlayer.do_stuff (cdg.py:384-409) after PykPlayer.do_stuff
\* (player.py:343-361), polled at position pos
DoStuffAct(pos) ==
  /\ player.state # "STATE_CLOSED"
  /\ IF player.state = "STATE_CLOSING"
     THEN /\ player' = [player EXCEPT !.state = "STATE_CLOSED"]
          /\ op' = "do_stuff"
          /\ UNCHANGED <<reader, ret, call_pos, applied, shown, poll_log>>
     ELSE IF player.state # "STATE_PLAYING"
     THEN /\ op' = "do_stuff"
          /\ UNCHANGED <<player, reader, ret, call_pos, applied, shown, poll_log>>
     ELSE \E due \in PacketsDue(pos) :
          \E cnt \in {CountPackets([player EXCEPT !.curr_pos = pos], due)} :
          \E called \in {cnt.num_packets > 0} :
          \E res \in {IF called THEN DoPackets(cdg_data, reader, cnt.num_packets)
                      ELSE [reader |-> reader, ret |-> TRUE, done |-> 0]} :
          \E p1 \in {IF res.ret THEN cnt.player
                     ELSE [cnt.player EXCEPT !.state = "STATE_CLOSING"]} :
          \E update \in {(pos - player.LastPos) * Fps > 1000} :
          \E upd \in {IF update THEN CdgDisplayUpdate(p1, res.reader)
                      ELSE [player |-> p1, reader |-> res.reader, view |-> <<>>]} :
            /\ player' = IF update THEN [upd.player EXCEPT !.LastPos = pos] ELSE p1
            /\ reader' = upd.reader
            /\ ret' = IF called THEN Some(res.ret) ELSE ret
            /\ call_pos' = IF called THEN reader.cdg_data_pos ELSE call_pos
            /\ applied' = applied + res.done
            /\ shown' = IF update THEN Some(upd.view) ELSE shown
            /\ poll_log' = Polled(poll_log, pos, IF called THEN cnt.num_packets ELSE 0)
            /\ op' = "poll"
  /\ UNCHANGED <<cdg_data, backend, song_db, fn_vars, midi_vars>>

NextPoll ==
  \/ PlayAct
  \/ PauseAct
  \/ PlayerRewindAct
  \/ \E pos \in Positions : DoStuffAct(pos)

SpecPoll == InitPoll /\ [][NextPoll]_vars

\* floor(t * 300 / 1000), t >= 0
DueAt(t) == (t * PacketsPerSecond) \div 1000

\* the last step was a poll in the PLAYING state at a position t >= 0
PolledPlaying == op = "poll" /\ The(poll_log.pos) >= 0

(***************************************************************************)
(* C15 as stated: after a poll in the PLAYING state at a position t >= 0   *)
(* the packets requested since the last rewind number at least             *)
(* floor(t*300/1000), exactly that many when no poll was at a lower         *)
(* position than the one before it, and the poll requested the increase of *)
(* floor(t*300/1000) since the poll before, or nothing when that is        *)
(* negative.                                                               *)
(***************************************************************************)
C15_PollRequestsIncrease ==
  PolledPlaying =>
    LET t == The(poll_log.pos)
        first == poll_log.prev_pos = None
        prev == IF first THEN 0 ELSE The(poll_log.prev_pos)
    IN /\ poll_log.total >= DueAt(t)
       /\ poll_log.monotone => poll_log.total = DueAt(t)
       /\ prev >= 0 => poll_log.requested = Max(0, DueAt(t) - DueAt(prev))

(***************************************************************************)
(* C15, amended: after a poll in the PLAYING state at a position t >= 0    *)
(* the packets requested since the last rewind number at least             *)
(* floor(t*300/1000), exactly that many when t is not below any position   *)
(* polled since the rewind; the poll itself requested what                 *)
(* floor(t*300/1000) exceeds the number requested before it, or nothing,   *)
(* which is the increase since the poll before while the positions have    *)
(* never decreased.                                                        *)
(***************************************************************************)
C15_PollRequestsShortfall ==
  PolledPlaying =>
    LET t == The(poll_log.pos)
        before == poll_log.total - poll_log.requested
    IN /\ poll_log.total >= DueAt(t)
       /\ t = The(poll_log.max_pos) => poll_log.total = DueAt(t)
       /\ poll_log.requested = Max(0, DueAt(t) - before)
       /\ poll_log.requested >= 0
       /\ (poll_log.monotone /\ poll_log.prev_pos # None /\ The(poll_log.prev_pos) >= 0)
            => poll_log.requested = DueAt(t) - DueAt(The(poll_log.prev_pos))
       /\ player.cdgReadPackets = poll_log.total

\* a poll that catches up after the position went down and came back up
C15_Witness ==
  /\ PolledPlaying
  /\ ~poll_log.monotone
  /\ poll_log.prev_pos # None
  /\ The(poll_log.pos) > The(poll_log.prev_pos)
  /\ The(poll_log.prev_pos) >= 0
  /\ The(poll_log.pos) = The(poll_log.max_pos)
  /\ poll_log.requested > 0
  /\ poll_log.requested < DueAt(The(poll_log.pos)) - DueAt(The(poll_log.prev_pos))

(***************************************************************************)
(*              var_length on encoded quantities (kar.py)                  *)
(***************************************************************************)
\* encode_vlq (tests/test_midi_format.py:66-76): the groups above the lowest
\* one, most significant first, each with the continuation bit
RECURSIVE EncodeVlqHigh(_)
EncodeVlqHigh(value) ==
  IF value = 0 THEN <<>>
  ELSE EncodeVlqHigh(value \div 128) \o <<BitAnd(value, 127) + 128>>

EncodeVlq(value) == EncodeVlqHigh(value \div 128) \o <<BitAnd(value, 127)>>

\* largest quantity of four bytes
MaxVlq == Pow2(28) - 1

\* quantities around the points where the encoding grows by a byte
VlqValues ==
  {0, 1, 64, 127, 128, 129, 255, 8192, 16383, 16384, 16385, 100000,
   Pow2(21) - 1, Pow2(21), Pow2(27) + 5, MaxVlq}

\* bytes in front of the handle's position and behind the quantity
VlqPrefixes == {<<>>, <<255>>}
VlqTails == {<<>>, <<0>>, <<129>>, <<255, 0>>}

InitVlq ==
  /\ CdgIdle /\ MidiIdle /\ PlayerIdle /\ BackendIdle /\ DbIdle
  /\ call \in {[fn |-> "var_length", value |-> x, data |-> pre \o EncodeVlq(x) \o tail,
                pos |-> Len(pre)] : x \in VlqValues, pre \in VlqPrefixes, tail \in VlqTails}
  /\ result = None

\* var_length(filehdl) (kar.py:1028-1045)
VarLengthAct ==
  /\ call.fn = "var_length"
  /\ result = None
  /\ result' = Some(VarLength(call.data, call.pos))
  /\ UNCHANGED <<call, player, poll_log, backend, song_db, cdg_vars, midi_vars>>

NextVlq == VarLengthAct

SpecVlq == InitVlq /\ [][NextVlq]_vars

(***************************************************************************)
(* C16: var_length applied to the standard encoding of a quantity x,       *)
(* 0 <= x <= 2^28 - 1, returns x with the number of encoded bytes, and the *)
(* handle has advanced by exactly those bytes.                             *)
(***************************************************************************)
C16_VarLengthRoundTrip ==
  (call.fn = "var_length" /\ result # None /\ call.value \in 0 .. MaxVlq) =>
    LET n == Len(EncodeVlq(call.value))
    IN /\ The(result).value = call.value
       /\ The(result).var_bytes = n
       /\ The(result).pos = call.pos + n

\* a four-byte quantity read from the middle of a buffer
C16_Witness ==
  /\ call.fn = "var_length"
  /\ result # None
  /\ call.value = MaxVlq
  /\ The(result).var_bytes = 4
  /\ call.pos > 0
  /\ The(result).pos < Len(call.data)

(***************************************************************************)
(*                 Lyrics.analyze_spaces on syllable lists                 *)
(***************************************************************************)
MaxSyllables == 13

Str_a == <<97>>

\* n syllables "a" on one line, or on two lines with the break after brk;
\* the syllables of gaps end in a space, lead begins with one, hy ends in a
\* hyphen
SpaceList(n, brk, gaps, lead, hy) ==
  [i \in 1 .. n |->
     LyricSyllable(i,
                   (IF i = lead THEN <<Ch_Space>> ELSE <<>>) \o Str_a
                     \o (IF i = hy THEN <<Ch_Hyphen>>
                         ELSE IF i \in gaps THEN <<Ch_Space>> ELSE <<>>),
                   IF brk > 0 /\ i > brk THEN 1 ELSE 0,
                   TEXT_LYRIC)]

SpaceListsOf(n) ==
  {SpaceList(n, brk, gaps, lead, hy) :
     brk \in {0, 1, 6}, gaps \in {{}, {1}, {1, 2}, {n}}, lead \in {0, 3},
     hy \in {0, 2, n}}

SpaceLists == UNION {SpaceListsOf(n) : n \in 1 .. MaxSyllables}

InitSpaces ==
  /\ CdgIdle /\ MidiIdle /\ PlayerIdle /\ BackendIdle /\ DbIdle
  /\ call \in {[fn |-> "analyze_spaces", list |-> l] : l \in SpaceLists}
  /\ result = None

\* lyrics.analyze_spaces() (kar.py:426-439): the list afterwards
AnalyzeSpacesAct ==
  /\ call.fn = "analyze_spaces"
  /\ result = None
  /\ result' = Some(AnalyzeSpaces(call.list))
  /\ UNCHANGED <<call, player, poll_log, backend, song_db, cdg_vars, midi_vars>>

NextSpaces == AnalyzeSpacesAct

SpecSpaces == InitSpaces /\ [][NextSpaces]_vars

\* the syllables that have a successor on their own line
NonFinal(list) == {i \in 1 .. Len(list) - 1 : list[i + 1].line = list[i].line}

\* whitespace on either side of the junction after syllable i
JunctionSpace(list, i) ==
  \/ list[i].text # <<>> /\ list[i].text[Len(list[i].text)] \in Whitespace
  \/ list[i + 1].text # <<>> /\ list[i + 1].text[1] \in Whitespace

TooFewSpaces(list) ==
  /\ NonFinal(list) # {}
  /\ 10 * Cardinality({i \in NonFinal(list) : JunctionSpace(list, i)})
       < Cardinality(NonFinal(list))

EndsInHyphen(text) == text # <<>> /\ text[Len(text)] = Ch_Hyphen

(***************************************************************************)
(* C17: analyze_spaces changes texts only when the list has a same-line    *)
(* pair of neighbours and fewer than 10% of those pairs have whitespace at *)
(* the junction; then every syllable that is not the last of its line      *)
(* loses its trailing hyphen or else gains a trailing space, and the last  *)
(* syllables of the lines stay as they are; otherwise nothing changes.     *)
(***************************************************************************)
C17_AnalyzeSpaces ==
  (call.fn = "analyze_spaces" /\ result # None) =>
    LET list == call.list
        out == The(result)
    IN IF TooFewSpaces(list)
       THEN /\ Len(out) = Len(list)
            /\ \A i \in 1 .. Len(list) :
                 IF i \in NonFinal(list)
                 THEN out[i] = [list[i] EXCEPT !.text =
                                  IF EndsInHyphen(@) THEN SubSeq(@, 1, Len(@) - 1)
                                  ELSE @ \o <<Ch_Space>>]
                 ELSE out[i] = list[i]
       ELSE out = list

\* a repaired list of two lines that had one junction with a space and a
\* hyphenated syllable
C17_Witness ==
  /\ call.fn = "analyze_spaces"
  /\ result # None
  /\ TooFewSpaces(call.list)
  /\ \E i \in NonFinal(call.list) : JunctionSpace(call.list, i)
  /\ \E i \in NonFinal(call.list) :
       /\ EndsInHyphen(call.list[i].text)
       /\ ~EndsInHyphen(The(result)[i].text)
  /\ \E i \in 1 .. Len(call.list) - 1 : call.list[i].line # call.list[i + 1].line

(***************************************************************************)
(*                  Lyrics.record_text on "@" payloads                     *)
(***************************************************************************)
Ch_K == 75

\* what follows the first character, and what follows that
SecondChars == {<<>>, <<Ch_T>>, <<Ch_I>>, <<Ch_K>>, <<Ch_At>>, <<Ch_LF>>, <<Ch_NUL>>}
Remainders ==
  {<<>>, Str_a, Str_a \o <<Ch_LF>> \o Str_a, <<Ch_Space>> \o Str_a \o <<Ch_Space, Ch_LF>>,
   <<Ch_LF>>, <<Ch_CR>> \o Str_a}

TextPayloads ==
  {<<c>> \o s \o rem : c \in {Ch_At, Ch_Slash}, s \in SecondChars, rem \in Remainders}

\* a Lyrics object before the call: fresh, or holding a syllable on line 3
LyricsBefore ==
  {NewLyrics, [list |-> <<LyricSyllable(0, Str_a, 3, TEXT_LYRIC)>>, line |-> 3]}

InitText ==
  /\ CdgIdle /\ MidiIdle /\ PlayerIdle /\ BackendIdle /\ DbIdle
  /\ call \in {[fn |-> "record_text", lyr |-> l, click |-> 5, text |-> t] :
                 l \in LyricsBefore, t \in TextPayloads}
  /\ result = None

\* lyrics.record_text(click, text) (kar.py:318-363)
RecordTextAct ==
  /\ call.fn = "record_text"
  /\ result = None
  /\ result' = Some(RecordText(call.lyr, call.click, call.text))
  /\ UNCHANGED <<call, player, poll_log, backend, song_db, cdg_vars, midi_vars>>

NextText == RecordTextAct

SpecText == InitText /\ [][NextText]_vars

\* the payload without NUL and CR characters
Cleaned(text) == SelectSeq(text, LAMBDA ch : ch # Ch_NUL /\ ch # Ch_CR)

\* the number of newline-separated pieces of a text
NumPieces(text) == 1 + Cardinality({i \in 1 .. Len(text) : text[i] = Ch_LF})

\* the last n syllables of the list are comments of the given type on the
\* lines after line
CommentsAppended(before, after, n, text_type) ==
  /\ Len(after.list) = Len(before.list) + n
  /\ SubSeq(after.list, 1, Len(before.list)) = before.list
  /\ after.line = before.line + n
  /\ \A k \in 1 .. n :
       /\ after.list[Len(before.list) + k].type = text_type
       /\ after.list[Len(before.list) + k].line = before.line + k

(***************************************************************************)
(* C18: record_text of a payload that begins with "@" appends one title    *)
(* comment per newline-separated piece after "@T", one info comment per    *)
(* piece after "@I", and for any other payload, "@" alone included,        *)
(* appends nothing, leaves the line counter alone and raises no error.     *)
(***************************************************************************)
C18_AtPayloads ==
  (call.fn = "record_text" /\ result # None /\ Cleaned(call.text)[1] = Ch_At) =>
    LET text == Cleaned(call.text)
        res == The(result)
    IN /\ res.exc = None
       /\ IF Len(text) >= 2 /\ text[2] = Ch_T
          THEN CommentsAppended(call.lyr, res.lyr, NumPieces(From(text, 2)), TEXT_TITLE)
          ELSE IF Len(text) >= 2 /\ text[2] = Ch_I
          THEN CommentsAppended(call.lyr, res.lyr, NumPieces(From(text, 2)), TEXT_INFO)
          ELSE res.lyr = call.lyr

(***************************************************************************)
(* Specification SpecNotes: midi_parse_data on whole files made of a       *)
(* lyric track and up to two tracks with or without note events.           *)
(***************************************************************************)
N_On(delta) == <<delta, 144, 60, 64>>
N_Off(delta) == <<delta, 128, 60, 0>>

\* first note at 10, last at 14
T_Late == <<E_Tempo, N_On(10), N_Off(4), E_EndOfTrack>>
\* first note at 3, last at 131, a note-on by running status
T_Long == <<E_Tempo, N_On(3), E_RunningNote, N_Off(0), E_EndOfTrack>>
\* a note-off without any note-on
T_OffOnly == <<N_Off(1), E_EndOfTrack>>
\* a note-off before the first note-on at 22, and a second note-on at 149
T_OffFirst == <<E_Tempo, N_Off(2), N_On(20), N_On(127), E_EndOfTrack>>
T_NoNotes == <<E_Tempo, E_Sysex, E_EndOfTrack>>

NoteTracks == {T_Late, T_Long, T_OffOnly, T_OffFirst, T_NoNotes}

NoteTrackLists ==
  {<<LyricTrack>>}
    \cup {<<LyricTrack, a>> : a \in NoteTracks}
    \cup {<<a, LyricTrack>> : a \in NoteTracks}
    \cup {<<a, LyricTrack, b>> : a \in NoteTracks, b \in NoteTracks}

NoteFiles ==
  {[type |-> Str_MThd, division |-> QuarterDivision, tracks |-> tl] : tl \in NoteTrackLists}

InitNotes ==
  /\ CdgIdle /\ TsIdle /\ SelIdle /\ AppIdle
  /\ midifile = NewMidiFile
  /\ \E f \in NoteFiles :
       parse = [input |-> [file |-> f, cut |-> Len(Encode(f))],
                midi_data |-> Encode(f),
                pos |-> 0, pc |-> "header", track |-> None, length |-> 0, track_num |-> 0,
                result |-> "pending", exc |-> None, errors |-> <<>>]

SpecNotes == InitNotes /\ [][NextParse]_vars

\* the delta time of a written event (one or two bytes) and its length
DeltaLen(event) == IF event[1] >= 128 THEN 2 ELSE 1
DeltaOf(event) == IF event[1] >= 128 THEN (event[1] - 128) * 128 + event[2] ELSE event[1]

\* the tick of event j of a written track
RECURSIVE TickOf(_, _)
TickOf(events, j) == IF j = 0 THEN 0 ELSE TickOf(events, j - 1) + DeltaOf(events[j])

\* the status in force at event j of a written track: its own status byte,
\* or the last channel status before it
RECURSIVE RunningAt(_, _)
RunningAt(events, j) ==
  IF j = 0 THEN 0
  ELSE LET b == events[j][DeltaLen(events[j]) + 1]
       IN IF b >= 128 /\ BitAnd(b, 240) # 240 THEN b ELSE RunningAt(events, j - 1)

StatusAt(events, j) ==
  LET b == events[j][DeltaLen(events[j]) + 1]
  IN IF b >= 128 THEN b ELSE RunningAt(events, j - 1)

NoteOns(events) == {j \in 1 .. Len(events) : BitAnd(StatusAt(events, j), 240) = 144}
NoteEvents(events) ==
  {j \in 1 .. Len(events) : BitAnd(StatusAt(events, j), 240) \in {128, 144}}

SetMin(S) == CHOOSE m \in S : \A x \in S : m <= x
SetMax(S) == CHOOSE m \in S : \A x \in S : m >= x

\* the written tracks of the file being parsed
Written == parse.input.file.tracks

\* the parse has returned a MidiFile
ParseSucceeded == parse.pc = "done" /\ parse.result = "MidiFile"

\* the first-note tick a descriptor of written track k may hold
FirstNoteTickOk(track_desc, k) ==
  track_desc.first_note_click # None =>
    /\ NoteOns(Written[k]) # {}
    /\ The(track_desc.first_note_click) = TickOf(Written[k], SetMin(NoteOns(Written[k])))

(***************************************************************************)
(* C19: after a successful parse earliest_note_ms is the least             *)
(* first_note_ms of the tracks with a note-on and last_note_ms the         *)
(* greatest last_note_ms of the tracks with a note event; both are unset   *)
(* exactly when no track has a note event, and a file with lyrics parses   *)
(* whether or not it has notes; a track's first-note tick is the tick of   *)
(* its first note-on from the moment it is set.                            *)
(***************************************************************************)
C19_NoteBounds ==
  /\ ParseEnded => parse.result = "MidiFile"
  /\ parse.track # None => FirstNoteTickOk(The(parse.track), parse.track_num + 1)
  /\ \A k \in 1 .. Len(midifile.track_list) :
       /\ FirstNoteTickOk(midifile.track_list[k], k)
       /\ NoteOns(Written[k]) # {} => midifile.track_list[k].first_note_click # None
  /\ ParseSucceeded =>
       LET tl == midifile.track_list
           with_on == {k \in 1 .. Len(Written) : NoteOns(Written[k]) # {}}
           with_note == {k \in 1 .. Len(Written) : NoteEvents(Written[k]) # {}}
       IN /\ Len(tl) = Len(Written)
          /\ \A k \in with_on : tl[k].first_note_ms # None
          /\ \A k \in with_note : tl[k].last_note_ms # None
          /\ midifile.earliest_note_ms =
               IF with_on = {} THEN None
               ELSE Some(SetMin({The(tl[k].first_note_ms) : k \in with_on}))
          /\ midifile.last_note_ms =
               IF with_note = {} THEN None
               ELSE Some(SetMax({The(tl[k].last_note_ms) : k \in with_note}))
          /\ (midifile.earliest_note_ms = None /\ midifile.last_note_ms = None)
               <=> with_note = {}

\* three tracks parsed: the earliest note is in the third and the latest in
\* the first, which begins with a note-off
C19_Witness ==
  /\ ParseSucceeded
  /\ Written = <<T_OffFirst, LyricTrack, T_Long>>
  /\ midifile.earliest_note_ms = midifile.track_list[3].first_note_ms
  /\ midifile.last_note_ms = midifile.track_list[1].last_note_ms
  /\ midifile.track_list[1].first_note_ms # midifile.track_list[3].first_note_ms
  /\ midifile.track_list[1].last_note_ms # midifile.track_list[3].last_note_ms

(***************************************************************************)
(*          PyKaraokeBackend.handle_command (core/backend.py)              *)
(*                                                                         *)
(* JSON values: integers, strings and null; a params dictionary has at     *)
(* most one key here.  The volume is kept in percent (0.75 is 75).  Songs  *)
(* are the file paths their SongStruct was made from.  The collaborators   *)
(* (song database, player, manager) either work or raise; ext names what   *)
(* the collaborator call of a command does (MakePlayer, Pause, Stop,       *)
(* SetVolume, makeSongStruct, SearchDatabase, BuildSearchDatabase,         *)
(* FolderAdd), "no player" being MakePlayer returning None.                *)
(***************************************************************************)
IntV(n) == [t |-> "int", n |-> n, s |-> ""]
StrV(s) == [t |-> "str", n |-> 0, s |-> s]
NullV == [t |-> "null", n |-> 0, s |-> ""]

EmptyDict == [t |-> "dict", key |-> "", val |-> NullV]
Dict(key, val) == [t |-> "dict", key |-> key, val |-> val]

\* not x, for a JSON value
Falsy(v) == v = NullV \/ v = IntV(0) \/ v = StrV("")

\* params.get(key, default): AttributeError when params is not a dictionary
HasKey(params, key) == params.t = "dict" /\ params.key = key /\ key # ""
Get(params, key, default) == IF HasKey(params, key) THEN params.val ELSE default

DefaultVolume == 75

\* PyKaraokeBackend.__init__ (backend.py:85-108)
NewBackend ==
  [state |-> "idle",
   current_player |-> FALSE,
   current_song |-> None,
   playlist |-> <<>>,
   playlist_index |-> -1,
   volume |-> DefaultVolume,
   position_ms |-> IntV(0),
   error_message |-> None]

Ok(b) == [b |-> b, status |-> "ok", message |-> None, exc |-> None]
OkMsg(b, msg) == [b |-> b, status |-> "ok", message |-> Some(msg), exc |-> None]
Err(b, msg) == [b |-> b, status |-> "error", message |-> Some(msg), exc |-> None]
\* the handler raised: the state it leaves and the exception
Raised(b, exc) == [b |-> b, status |-> "raised", message |-> None, exc |-> Some(exc)]

ExtOutcomes == {"ok", "RuntimeError", "KeyError", "no player"}
ExtRaises(ext) == ext \in {"RuntimeError", "KeyError"}

\* _start_playback (backend.py:300-336)
StartPlayback(b, ext) ==
  IF b.current_song = None THEN Err(b, "No song loaded")
  ELSE LET loading == [b EXCEPT !.state = "loading"]
       IN IF ext = "RuntimeError"
          THEN Err([loading EXCEPT !.state = "error", !.error_message = Some(ext)], ext)
          ELSE IF ext = "KeyError" THEN Raised(loading, ext)
          ELSE IF ext = "no player"
          THEN Raised([loading EXCEPT !.current_player = FALSE], "Failed to create player")
          ELSE Ok([loading EXCEPT !.current_player = TRUE, !.state = "playing"])

\* _handle_play (backend.py:221-246)
HandlePlay(b, params, ext) ==
  IF params.t # "dict" THEN Raised(b, "AttributeError")
  ELSE LET song_index == Get(params, "playlist_index", NullV)
       IN IF song_index # NullV
          THEN IF song_index.t # "int" THEN Raised(b, "TypeError")
               ELSE IF 0 <= song_index.n /\ song_index.n < Len(b.playlist)
               THEN StartPlayback([b EXCEPT !.playlist_index = song_index.n,
                                            !.current_song = Some(b.playlist[song_index.n + 1])],
                                  ext)
               ELSE Err(b, "Invalid playlist index")
          ELSE IF b.current_player /\ b.state = "paused"
          THEN IF ExtRaises(ext) THEN Raised(b, ext)
               ELSE Ok([b EXCEPT !.state = "playing"])
          ELSE IF b.current_song # None THEN StartPlayback(b, ext)
          ELSE Err(b, "No song loaded")

\* _handle_pause (backend.py:248-255)
HandlePause(b, ext) ==
  IF b.current_player /\ b.state = "playing"
  THEN IF ExtRaises(ext) THEN Raised(b, ext) ELSE Ok([b EXCEPT !.state = "paused"])
  ELSE Err(b, "Not playing")

\* _handle_stop (backend.py:257-265)
HandleStop(b, ext) ==
  IF b.current_player
  THEN IF ExtRaises(ext) THEN Raised(b, ext)
       ELSE Ok([b EXCEPT !.state = "stopped", !.position_ms = IntV(0)])
  ELSE Ok(b)

\* _handle_next (backend.py:267-273)
HandleNext(b, ext) ==
  IF b.playlist_index < Len(b.playlist) - 1
  THEN StartPlayback([b EXCEPT !.playlist_index = @ + 1,
                               !.current_song = Some(b.playlist[b.playlist_index + 2])], ext)
  ELSE Err(b, "No next song")

\* _handle_previous (backend.py:275-281)
HandlePrevious(b, ext) ==
  IF b.playlist_index > 0
  THEN StartPlayback([b EXCEPT !.playlist_index = @ - 1,
                               !.current_song = Some(b.playlist[b.playlist_index])], ext)
  ELSE Err(b, "No previous song")

\* _handle_seek (backend.py:283-289)
HandleSeek(b, params) ==
  IF params.t # "dict" THEN Raised(b, "AttributeError")
  ELSE OkMsg([b EXCEPT !.position_ms = Get(params, "position_ms", IntV(0))],
             "Seek not yet supported")

\* _handle_set_volume (backend.py:291-298): max(0.0, min(1.0, volume)) raises
\* TypeError on a string or None
HandleSetVolume(b, params, ext) ==
  IF params.t # "dict" THEN Raised(b, "AttributeError")
  ELSE LET volume == Get(params, "volume", IntV(DefaultVolume))
       IN IF volume.t # "int" THEN Raised(b, "TypeError")
          ELSE LET clamped == [b EXCEPT !.volume = Max(0, Min(100, volume.n))]
               IN IF ExtRaises(ext) THEN Raised(clamped, ext) ELSE Ok(clamped)

MaxPlaylist == 2

\* _handle_load_song (backend.py:361-372)
HandleLoadSong(b, params, ext) ==
  IF params.t # "dict" THEN Raised(b, "AttributeError")
  ELSE LET filepath == Get(params, "filepath", NullV)
       IN IF Falsy(filepath) THEN Err(b, "filepath required")
          ELSE IF ext = "RuntimeError" THEN Err(b, ext)
          ELSE IF ext = "KeyError" THEN Raised(b, ext)
          ELSE Ok([b EXCEPT !.current_song = Some(filepath)])

\* _handle_add_to_playlist (backend.py:374-388)
HandleAddToPlaylist(b, params, ext) ==
  IF params.t # "dict" THEN Raised(b, "AttributeError")
  ELSE LET filepath == Get(params, "filepath", NullV)
       IN IF Falsy(filepath) THEN Err(b, "filepath required")
          ELSE IF ExtRaises(ext) THEN Raised(b, ext)
          ELSE Ok([b EXCEPT !.playlist = Append(@, filepath)])

\* _handle_remove_from_playlist (backend.py:390-403)
HandleRemoveFromPlaylist(b, params) ==
  IF params.t # "dict" THEN Raised(b, "AttributeError")
  ELSE LET index == Get(params, "index", NullV)
       IN IF index = NullV THEN Err(b, "Invalid index")
          ELSE IF index.t # "int" THEN Raised(b, "TypeError")
          ELSE IF ~(0 <= index.n /\ index.n < Len(b.playlist)) THEN Err(b, "Invalid index")
          ELSE Ok([b EXCEPT
                     !.playlist = SubSeq(@, 1, index.n) \o SubSeq(@, index.n + 2, Len(@)),
                     !.playlist_index = IF @ >= index.n /\ @ > 0 THEN @ - 1 ELSE @])

\* _handle_clear_playlist (backend.py:405-410)
HandleClearPlaylist(b) == Ok([b EXCEPT !.playlist = <<>>, !.playlist_index = -1])

\* _handle_search_songs, _handle_scan_library (backend.py:414-443): a call
\* into the song database
HandleSearchSongs(b, params, ext) ==
  IF params.t # "dict" THEN Raised(b, "AttributeError")
  ELSE IF ExtRaises(ext) THEN Raised(b, ext) ELSE Ok(b)

HandleScanLibrary(b, ext) ==
  IF ext = "RuntimeError" THEN Err(b, ext)
  ELSE IF ext = "KeyError" THEN Raised(b, ext)
  ELSE OkMsg(b, "Scan started")

\* _handle_add_folder (backend.py:445-455)
HandleAddFolder(b, params, ext) ==
  IF params.t # "dict" THEN Raised(b, "AttributeError")
  ELSE IF Falsy(Get(params, "folder", NullV)) THEN Err(b, "folder required")
  ELSE IF ExtRaises(ext) THEN Raised(b, ext)
  ELSE Ok(b)

\* _handle_update_settings (backend.py:471-475): len(params)
HandleUpdateSettings(b, params) ==
  IF params.t # "dict" THEN Raised(b, "TypeError") ELSE OkMsg(b, "Settings updated")

KnownActions ==
  {"play", "pause", "stop", "next", "previous", "seek", "set_volume", "load_song",
   "add_to_playlist", "remove_from_playlist", "clear_playlist", "get_state",
   "search_songs", "get_library", "scan_library", "add_folder", "get_settings",
   "update_settings"}

\* the if / elif chain of handle_command (backend.py:152-191)
Dispatch(b, action, params, ext) ==
  CASE action = StrV("play") -> HandlePlay(b, params, ext)
    [] action = StrV("pause") -> HandlePause(b, ext)
    [] action = StrV("stop") -> HandleStop(b, ext)
    [] action = StrV("next") -> HandleNext(b, ext)
    [] action = StrV("previous") -> HandlePrevious(b, ext)
    [] action = StrV("seek") -> HandleSeek(b, params)
    [] action = StrV("set_volume") -> HandleSetVolume(b, params, ext)
    [] action = StrV("load_song") -> HandleLoadSong(b, params, ext)
    [] action = StrV("add_to_playlist") -> HandleAddToPlaylist(b, params, ext)
    [] action = StrV("remove_from_playlist") -> HandleRemoveFromPlaylist(b, params)
    [] action = StrV("clear_playlist") -> HandleClearPlaylist(b)
    [] action = StrV("get_state") -> Ok(b)
    [] action = StrV("search_songs") -> HandleSearchSongs(b, params, ext)
    [] action = StrV("get_library") -> Ok(b)
    [] action = StrV("scan_library") -> HandleScanLibrary(b, ext)
    [] action = StrV("add_folder") -> HandleAddFolder(b, params, ext)
    [] action = StrV("get_settings") -> Ok(b)
    [] action = StrV("update_settings") -> HandleUpdateSettings(b, params)
    [] OTHER -> Err(b, "Unknown action")

\* handle_command without its except clause
HandleCommand_NoCatch(b, command, ext) ==
  Dispatch(b, command.action, command.params, ext)

\* handle_command (backend.py:137-194): whatever the handler raises becomes
\* an error response
HandleCommand(b, command, ext) ==
  LET Caught(res) ==
        IF res.status = "raised"
        THEN [b |-> res.b, status |-> "error", message |-> res.exc, exc |-> None]
        ELSE res
  IN Caught(Dispatch(b, command.action, command.params, ext))

\* the parameter a handler reads from params, "" when it reads none
KeyOf(action) ==
  CASE action = "play" -> "playlist_index"
    [] action = "seek" -> "position_ms"
    [] action = "set_volume" -> "volume"
    [] action \in {"load_song", "add_to_playlist"} -> "filepath"
    [] action = "remove_from_playlist" -> "index"
    [] action = "search_songs" -> "query"
    [] action = "add_folder" -> "folder"
    [] OTHER -> ""

Str_a_cdg == StrV("a.cdg")

ValuesOf(key) ==
  CASE key = "playlist_index" -> {IntV(1), IntV(5), Str_a_cdg, NullV}
    [] key = "index" -> {IntV(0), IntV(1), IntV(5), Str_a_cdg, NullV}
    [] key = "volume" -> {IntV(150), Str_a_cdg, NullV}
    [] key = "position_ms" -> {Str_a_cdg}
    [] key = "filepath" -> {Str_a_cdg, StrV(""), NullV}
    [] key = "folder" -> {Str_a_cdg, StrV("")}
    [] key = "query" -> {Str_a_cdg}
    [] OTHER -> {}

ParamsOf(action) ==
  IF KeyOf(action) = "" /\ action # "update_settings" THEN {EmptyDict}
  ELSE {EmptyDict, NullV} \cup {Dict(KeyOf(action), v) : v \in ValuesOf(KeyOf(action))}

Commands ==
  UNION {{[action |-> StrV(a), params |-> p] : p \in ParamsOf(a)} : a \in KnownActions}
    \cup {[action |-> StrV("nonexistent"), params |-> p] :
            p \in {EmptyDict, Dict("volume", IntV(150))}}
    \cup {[action |-> NullV, params |-> EmptyDict]}

InitBackend ==
  /\ CdgIdle /\ MidiIdle /\ PlayerIdle /\ DbIdle /\ FnIdle
  /\ backend = [obj |-> NewBackend, command |-> None, response |-> None,
                handler_raised |-> FALSE, make_player |-> None, events |-> <<>>]

\* the operation reaches the MakePlayer call of _start_playback
\* (backend.py:314): play with a valid playlist index or, without an index
\* and not resuming, with a song loaded (backend.py:225-243); next and
\* previous when there is such a song (backend.py:269-272, 277-280)
MakesPlayer(b, command) ==
  \/ /\ command.action = StrV("play")
     /\ command.params.t = "dict"
     /\ LET song_index == Get(command.params, "playlist_index", NullV)
        IN IF song_index # NullV
           THEN song_index.t = "int" /\ 0 <= song_index.n
                  /\ song_index.n < Len(b.playlist)
           ELSE ~(b.current_player /\ b.state = "paused") /\ b.current_song # None
  \/ command.action = StrV("next") /\ b.playlist_index < Len(b.playlist) - 1
  \/ command.action = StrV("previous") /\ b.playlist_index > 0

\* backend.handle_command(command); make_player is what MakePlayer did when
\* the command called it
HandleCommandAct(command, ext) ==
  /\ command.action = StrV("add_to_playlist") => Len(backend.obj.playlist) < MaxPlaylist
  /\ \E res \in {HandleCommand(backend.obj, command, ext)},
        raw \in {Dispatch(backend.obj, command.action, command.params, ext)} :
       backend' = [obj |-> res.b, command |-> Some(command),
                   response |-> Some([status |-> res.status, message |-> res.message]),
                   handler_raised |-> raw.status = "raised",
                   make_player |-> IF MakesPlayer(backend.obj, command)
                                   THEN Some(ext) ELSE None,
                   events |-> <<>>]
  /\ UNCHANGED <<player, poll_log, song_db, fn_vars, cdg_vars, midi_vars>>

\* the state_changed events of _start_playback (backend.py:307, 328, 335)
StartPlaybackEvents(ext) ==
  IF ext \in {"ok", "RuntimeError"} THEN <<"state_changed", "state_changed">>
  ELSE <<"state_changed">>

\* _on_song_finished emits song_finished, then starts the next song
\* instead of going idle
OnSongFinished_NeverIdle(b, ext) ==
  LET Started(res) == [b |-> res.b,
                       events |-> <<"song_finished">> \o StartPlaybackEvents(ext)]
  IN IF b.playlist_index < Len(b.playlist) - 1
     THEN Started(StartPlayback(
                    [b EXCEPT !.playlist_index = @ + 1,
                              !.current_song = Some(b.playlist[b.playlist_index + 2])],
                    ext))
     ELSE [b |-> b, events |-> <<"song_finished">>]

\* _on_song_finished (backend.py:345-357): the backend it leaves and the
\* events it emits; the response of _start_playback is dropped
OnSongFinished(b, ext) ==
  LET Started(res) == [b |-> res.b,
                       events |-> <<"song_finished">> \o StartPlaybackEvents(ext)]
  IN IF b.playlist_index < Len(b.playlist) - 1
     THEN Started(StartPlayback(
                    [b EXCEPT !.playlist_index = @ + 1,
                              !.current_song = Some(b.playlist[b.playlist_index + 2])],
                    ext))
     ELSE [b |-> [b EXCEPT !.state = "idle"],
           events |-> <<"song_finished", "state_changed">>]

\* the player calls its done callback, _on_song_finished
OnSongFinishedAct(ext) ==
  /\ backend.obj.current_player
  /\ \E fin \in {OnSongFinished(backend.obj, ext)} :
       backend' = [obj |-> fin.b, command |-> None, response |-> None,
                   handler_raised |-> FALSE,
                   make_player |->
                     IF backend.obj.playlist_index < Len(backend.obj.playlist) - 1
                     THEN Some(ext) ELSE None,
                   events |-> fin.events]
  /\ UNCHANGED <<player, poll_log, song_db, fn_vars, cdg_vars, midi_vars>>

NextBackend ==
  \/ \E command \in Commands, ext \in ExtOutcomes : HandleCommandAct(command, ext)
  \/ \E ext \in ExtOutcomes : OnSongFinishedAct(ext)

SpecBackend == InitBackend /\ [][NextBackend]_vars

\* the last operation was a command, and it has been answered
Answered == backend.command # None /\ backend.response # None

UnknownAction(command) ==
  command.action.t # "str" \/ command.action.s \notin KnownActions

\* the handler of the command reads its parameter from params
ReadsParam(command) == ~UnknownAction(command) /\ KeyOf(command.action.s) # ""

ParamOf(command) == Get(command.params, KeyOf(command.action.s), NullV)

\* params lacks the parameter the handler reads
MissingParam(command) ==
  /\ ReadsParam(command)
  /\ command.params.t = "dict"
  /\ ~HasKey(command.params, KeyOf(command.action.s))

NumberKeys == {"playlist_index", "index", "volume", "position_ms"}

\* an index no playlist of the model has
BeyondPlaylist(v) == v.t = "int" /\ (v.n < 0 \/ v.n >= MaxPlaylist)

\* params is not a dictionary, or the parameter has the wrong JSON type, is
\* an empty string, or is an index outside every playlist
InvalidParam(command) ==
  /\ ReadsParam(command)
  /\ \/ command.params.t # "dict"
     \/ /\ HasKey(command.params, KeyOf(command.action.s))
        /\ \/ KeyOf(command.action.s) \in NumberKeys /\ ParamOf(command).t # "int"
           \/ KeyOf(command.action.s) \notin NumberKeys
                /\ (ParamOf(command).t # "str" \/ ParamOf(command).s = "")
           \/ KeyOf(command.action.s) \in {"playlist_index", "index"}
                /\ BeyondPlaylist(ParamOf(command))

ErrorWithMessage ==
  The(backend.response).status = "error" /\ The(backend.response).message # None

\* a command with an unknown action leaves state, playlist, playlist index
\* and volume as they were
UnknownActionKeepsState ==
  (backend'.command # None /\ UnknownAction(The(backend'.command))) =>
    /\ backend'.obj.state = backend.obj.state
    /\ backend'.obj.playlist = backend.obj.playlist
    /\ backend'.obj.playlist_index = backend.obj.playlist_index
    /\ backend'.obj.volume = backend.obj.volume

RequiredKeys == {"filepath", "folder", "index"}

\* the parameters whose type or range the handler depends on
CheckedKeys == {"playlist_index", "index", "volume"}

\* what makes a command fail, apart from its collaborators
BadCommand(command) ==
  \/ UnknownAction(command)
  \/ ~UnknownAction(command) /\ command.action.s = "update_settings"
       /\ command.params.t # "dict"
  \/ /\ ReadsParam(command)
     /\ \/ command.params.t # "dict"
        \/ KeyOf(command.action.s) \in RequiredKeys
             /\ (MissingParam(command) \/ ParamOf(command) \in {NullV, StrV("")})
        \/ KeyOf(command.action.s) \in CheckedKeys
             /\ HasKey(command.params, KeyOf(command.action.s))
             /\ \/ ParamOf(command).t = "str"
                \/ KeyOf(command.action.s) # "volume" /\ BeyondPlaylist(ParamOf(command))
        \/ KeyOf(command.action.s) = "volume" /\ ParamOf(command) = NullV
             /\ HasKey(command.params, "volume")

PlayCouldNotCreatePlayer ==
  /\ Answered
  /\ The(backend.command).action = StrV("play")
  /\ backend.make_player # None
  /\ The(backend.make_player) # "ok"

(***************************************************************************)
(* C21: when a play command cannot create a player for the current song    *)
(* (MakePlayer returns no player, or raises), the response has status      *)
(* "error" and the playback state afterwards is ERROR, never LOADING or    *)
(* PLAYING.                                                                *)
(***************************************************************************)
C21_PlayFailureIsError ==
  PlayCouldNotCreatePlayer =>
    /\ The(backend.response).status = "error"
    /\ backend.obj.state = "error"
    /\ backend.obj.state \notin {"loading", "playing"}

\* the step is a call of _on_song_finished
SongFinishedStep == backend'.command = None /\ backend'.events # <<>>

\* the playlist has an entry after the current index
HasNextSong(b) == b.playlist_index < Len(b.playlist) - 1

(***************************************************************************)
(* C22: when the current song finishes, a song_finished event is emitted;  *)
(* if the playlist has an entry after the current index, playlist_index    *)
(* advances by exactly one, current_song becomes that entry and its        *)
(* playback is started (_start_playback runs on it: MakePlayer is called   *)
(* after the LOADING state change, and the state is PLAYING when it gives  *)
(* a player); otherwise playlist_index is unchanged and the state becomes  *)
(* IDLE.                                                                   *)
(***************************************************************************)
C22_SongFinishedAdvances ==
  [][SongFinishedStep =>
       /\ Head(backend'.events) = "song_finished"
       /\ IF HasNextSong(backend.obj)
          THEN /\ backend'.obj.playlist_index = backend.obj.playlist_index + 1
               /\ backend'.obj.playlist = backend.obj.playlist
               /\ backend'.obj.current_song =
                    Some(backend.obj.playlist[backend.obj.playlist_index + 2])
               /\ backend'.make_player # None
               /\ backend'.events[2] = "state_changed"
               /\ The(backend'.make_player) = "ok" =>
                    backend'.obj.state = "playing" /\ backend'.obj.current_player
          ELSE /\ backend'.obj.playlist_index = backend.obj.playlist_index
               /\ backend'.obj.state = "idle"
               /\ backend'.make_player = None]_vars

\* the first song of a playlist of two has finished and the second plays
C22_Witness ==
  /\ backend # None
  /\ backend.command = None
  /\ backend.events # <<>>
  /\ Head(backend.events) = "song_finished"
  /\ Len(backend.obj.playlist) = 2
  /\ backend.obj.playlist_index = 1
  /\ backend.obj.current_song = Some(backend.obj.playlist[2])
  /\ backend.make_player = Some("ok")
  /\ backend.obj.state = "playing"

(***************************************************************************)
(*      PykPlayer: the state machine of a player (core/player.py)          *)
(*                                                                         *)
(* In this specification player holds the PykPlayer object (obj), the      *)
(* value pygame.time.get_ticks() returned last (now), the method called    *)
(* last (op) and the number of times that call invoked the done callback   *)
(* (done_calls).  The do_* hooks are those of the base class, which do     *)
(* nothing (player.py:325-361).                                            *)
(***************************************************************************)
MaxTicks == 3
MaxFrames == 2
\* manager.options.dump_fps (player.py:226)
DumpFps == 500

PlayerStates ==
  {"STATE_INIT", "STATE_PLAYING", "STATE_PAUSED", "STATE_NOT_PLAYING", "STATE_CLOSING",
   "STATE_CLOSED", "STATE_CAPTURING"}

\* PykPlayer.__init__ (player.py:105-142); dump is manager.options.dump
NewPykPlayer(done_callback, dump) ==
  [state |-> "STATE_INIT",
   play_time |-> 0,
   play_start_time |-> 0,
   play_frame |-> 0,
   song_finished_callback |-> done_callback,
   dump |-> dump]

\* setup_dump (player.py:219-226)
SetupDump(p) ==
  [p EXCEPT !.play_time = 0, !.play_start_time = 0, !.play_frame = 0,
            !.state = "STATE_CAPTURING"]

\* play (player.py:156-163)
PykPlay(p, ticks) ==
  IF p.dump THEN SetupDump(p)
  ELSE [p EXCEPT !.play_start_time = ticks, !.state = "STATE_PLAYING"]

\* pause that treats every state but PLAYING as paused
PykPause_ElseResumes(p, ticks) ==
  IF p.state = "STATE_PLAYING"
  THEN [p EXCEPT !.play_time = ticks - p.play_start_time, !.state = "STATE_PAUSED"]
  ELSE [p EXCEPT !.play_start_time = ticks - p.play_time, !.state = "STATE_PLAYING"]

\* pause (player.py:166-174)
PykPause(p, ticks) ==
  IF p.state = "STATE_PLAYING"
  THEN [p EXCEPT !.play_time = ticks - p.play_start_time, !.state = "STATE_PAUSED"]
  ELSE IF p.state = "STATE_PAUSED"
  THEN [p EXCEPT !.play_start_time = ticks - p.play_time, !.state = "STATE_PLAYING"]
  ELSE p

\* close (player.py:177-178)
PykClose(p) == [p EXCEPT !.state = "STATE_CLOSING"]

\* rewind (player.py:181-186)
PykRewind(p) ==
  [p EXCEPT !.play_time = 0, !.play_start_time = 0, !.play_frame = 0,
            !.state = "STATE_NOT_PLAYING"]

\* stop (player.py:191-192)
PykStop(p) == PykRewind(p)

\* shutdown that notifies whatever the state
PykShutdown_AlwaysNotifies(p) ==
  [p |-> [p EXCEPT !.state = "STATE_CLOSED"],
   done_calls |-> IF p.song_finished_callback THEN 1 ELSE 0]

\* shutdown (player.py:452-460): the player and the calls of the callback
PykShutdown(p) ==
  IF p.state # "STATE_CLOSED"
  THEN [p |-> [p EXCEPT !.state = "STATE_CLOSED"],
        done_calls |-> IF p.song_finished_callback THEN 1 ELSE 0]
  ELSE [p |-> p, done_calls |-> 0]

\* get_pos (player.py:201-205)
PykGetPos(p, ticks) ==
  IF p.state = "STATE_PLAYING" THEN ticks - p.play_start_time ELSE p.play_time

\* do_stuff (player.py:343-361)
PykDoStuff(p) ==
  LET Framed(res) == [res EXCEPT !.p.play_frame = @ + 1]
  IN Framed(IF p.state = "STATE_CLOSING" THEN PykShutdown(p)
            ELSE IF p.state = "STATE_CAPTURING"
            THEN [p |-> [p EXCEPT !.play_time = (1000 * p.play_frame) \div DumpFps],
                  done_calls |-> 0]
            ELSE [p |-> p, done_calls |-> 0])

InitPlayer ==
  /\ CdgIdle /\ MidiIdle /\ BackendIdle /\ DbIdle /\ FnIdle
  /\ poll_log = None
  /\ \E done_callback \in BOOLEAN, dump \in BOOLEAN :
       player = [obj |-> NewPykPlayer(done_callback, dump), now |-> 0, op |-> "init",
                 done_calls |-> 0]

\* the clock at a call: not before the last reading
Ticks == player.now .. MaxTicks

PykCalled(p, ticks, name, calls) ==
  /\ player' = [obj |-> p, now |-> ticks, op |-> name, done_calls |-> calls]
  /\ UNCHANGED <<poll_log, backend, song_db, fn_vars, cdg_vars, midi_vars>>

PykPlayAct == \E ticks \in Ticks : PykCalled(PykPlay(player.obj, ticks), ticks, "play", 0)

PykPauseAct == \E ticks \in Ticks : PykCalled(PykPause(player.obj, ticks), ticks, "pause", 0)

PykCloseAct == PykCalled(PykClose(player.obj), player.now, "close", 0)

PykRewindAct == PykCalled(PykRewind(player.obj), player.now, "rewind", 0)

PykStopAct == PykCalled(PykStop(player.obj), player.now, "stop", 0)

PykShutdownAct ==
  \E res \in {PykShutdown(player.obj)} :
    PykCalled(res.p, player.now, "shutdown", res.done_calls)

PykDoStuffAct ==
  /\ player.obj.play_frame < MaxFrames
  /\ \E res \in {PykDoStuff(player.obj)} :
       PykCalled(res.p, player.now, "do_stuff", res.done_calls)

NextPlayer ==
  \/ PykPlayAct
  \/ PykPauseAct
  \/ PykCloseAct
  \/ PykRewindAct
  \/ PykStopAct
  \/ PykShutdownAct
  \/ PykDoStuffAct

SpecPlayer == InitPlayer /\ [][NextPlayer]_vars

(***************************************************************************)
(* C23: shutdown() on a player whose state is not CLOSED sets the state to *)
(* CLOSED and invokes the done callback, when one was registered, exactly  *)
(* once; shutdown() on a player that is already CLOSED changes nothing and *)
(* does not invoke the callback.                                           *)
(***************************************************************************)
C23_ShutdownOnce ==
  /\ [][player'.op = "shutdown" =>
          IF player.obj.state # "STATE_CLOSED"
          THEN /\ player'.obj = [player.obj EXCEPT !.state = "STATE_CLOSED"]
               /\ player'.done_calls =
                    IF player.obj.song_finished_callback THEN 1 ELSE 0
          ELSE /\ player'.obj = player.obj
               /\ player'.done_calls = 0]_vars
  /\ []((player # None /\ player.op = "shutdown") => player.obj.state = "STATE_CLOSED")

\* a playing player with a done callback was shut down
C23_Witness ==
  /\ player # None
  /\ player.op = "shutdown"
  /\ player.done_calls = 1
  /\ player.obj.state = "STATE_CLOSED"
  /\ player.obj.play_start_time > 0

(***************************************************************************)
(* C24: pause() moves a PLAYING player to PAUSED and a PAUSED player back  *)
(* to PLAYING and has no effect on the state in every other state (INIT,   *)
(* NOT_PLAYING, CLOSING, CLOSED); rewind() and stop() always leave the     *)
(* state NOT_PLAYING with play time 0.                                     *)
(***************************************************************************)
C24_PauseAndRewind ==
  /\ [][player'.op = "pause" =>
          player'.obj.state =
            CASE player.obj.state = "STATE_PLAYING" -> "STATE_PAUSED"
              [] player.obj.state = "STATE_PAUSED" -> "STATE_PLAYING"
              [] OTHER -> player.obj.state]_vars
  /\ []((player # None /\ player.op \in {"rewind", "stop"}) =>
          /\ player.obj.state = "STATE_NOT_PLAYING"
          /\ player.obj.play_time = 0
          /\ PykGetPos(player.obj, player.now) = 0)

\* a player paused after some time was stopped
C24_Witness ==
  /\ player # None
  /\ player.op = "stop"
  /\ player.now > 0
  /\ player.obj.state = "STATE_NOT_PLAYING"
  /\ player.obj.play_time = 0

(***************************************************************************)
(*     SongDatabase.get_zip_file / drop_zip_file (core/database.py)        *)
(*                                                                         *)
(* zip_files is the list of (filename, ZipFile) pairs, most recently used  *)
(* first.  A ZipFile object is known by the number of the open that made   *)
(* it.  The cache size is scaled down from the program's 10; opening a     *)
(* file either gives a ZipFile or raises (a missing or damaged file).      *)
(***************************************************************************)
MAX_ZIP_FILES == 3
\* zip files on disk
NumZipNames == 5
\* opens in one run
MaxOpens == 5

ZipNames == 1 .. NumZipNames

\* the index of the first entry for filename, 0 when there is none
CacheIndex(zip_files, filename) ==
  IF \E i \in 1 .. Len(zip_files) : zip_files[i][1] = filename
  THEN CHOOSE i \in 1 .. Len(zip_files) :
         /\ zip_files[i][1] = filename
         /\ \A j \in 1 .. i - 1 : zip_files[j][1] # filename
  ELSE 0

\* list.remove of the entry at index i
RemoveAt(zip_files, i) == SubSeq(zip_files, 1, i - 1) \o SubSeq(zip_files, i + 1, Len(zip_files))

\* get_zip_file that inserts without evicting
GetZipFile_NoEviction(db, filename, opens) ==
  LET i == CacheIndex(db.zip_files, filename)
  IN IF i > 0
     THEN [db |-> [db EXCEPT !.zip_files = <<@[i]>> \o RemoveAt(@, i)],
           zf |-> Some(db.zip_files[i][2]), opened |-> FALSE]
     ELSE IF ~opens THEN [db |-> db, zf |-> None, opened |-> FALSE]
     ELSE [db |-> [db EXCEPT !.zip_files = <<<<filename, db.opened + 1>>>> \o @,
                             !.opened = @ + 1],
           zf |-> Some(db.opened + 1), opened |-> TRUE]

\* get_zip_file (database.py:1328-1349): the database afterwards, the
\* ZipFile returned (None when zipfile.ZipFile raised) and whether the file
\* was opened
GetZipFile(db, filename, opens) ==
  LET i == CacheIndex(db.zip_files, filename)
  IN IF i > 0
     THEN [db |-> [db EXCEPT !.zip_files = <<@[i]>> \o RemoveAt(@, i)],
           zf |-> Some(db.zip_files[i][2]), opened |-> FALSE]
     ELSE IF ~opens THEN [db |-> db, zf |-> None, opened |-> FALSE]
     ELSE [db |-> [db EXCEPT
                     !.zip_files =
                       <<<<filename, db.opened + 1>>>> \o
                         (IF Len(@) >= MAX_ZIP_FILES THEN SubSeq(@, 1, Len(@) - 1) ELSE @),
                     !.opened = @ + 1],
           zf |-> Some(db.opened + 1), opened |-> TRUE]

\* drop_zip_file (database.py:1351-1359)
DropZipFile(db, filename) ==
  LET i == CacheIndex(db.zip_files, filename)
  IN IF i > 0 THEN [db EXCEPT !.zip_files = RemoveAt(@, i)] ELSE db

\* SongDatabase.__init__ (database.py:995); opened counts the ZipFile
\* objects made so far
NewSongDatabase == [zip_files |-> <<>>, opened |-> 0]

InitZip ==
  /\ CdgIdle /\ MidiIdle /\ PlayerIdle /\ BackendIdle
  /\ song_db = NewSongDatabase
  /\ call = None
  /\ result = None

GetZipFileAct(filename, opens) ==
  /\ song_db.opened < MaxOpens
  /\ \E res \in {GetZipFile(song_db, filename, opens)} :
       /\ song_db' = res.db
       /\ call' = Some([fn |-> "get_zip_file", filename |-> filename,
                        before |-> song_db.zip_files])
       /\ result' = Some([zf |-> res.zf, opened |-> res.opened])
  /\ UNCHANGED <<player, poll_log, backend, cdg_vars, midi_vars>>

DropZipFileAct(filename) ==
  /\ song_db' = DropZipFile(song_db, filename)
  /\ call' = Some([fn |-> "drop_zip_file", filename |-> filename,
                   before |-> song_db.zip_files])
  /\ result' = Some([zf |-> None, opened |-> FALSE])
  /\ UNCHANGED <<player, poll_log, backend, cdg_vars, midi_vars>>

NextZip ==
  \/ \E filename \in ZipNames, opens \in BOOLEAN : GetZipFileAct(filename, opens)
  \/ \E filename \in ZipNames : DropZipFileAct(filename)

SpecZip == InitZip /\ [][NextZip]_vars

\* the filenames of a cache, in order
CacheNames(zip_files) == [i \in 1 .. Len(zip_files) |-> zip_files[i][1]]

\* the entry for filename in a cache without duplicates
EntryFor(zip_files, filename) ==
  zip_files[CHOOSE i \in 1 .. Len(zip_files) : zip_files[i][1] = filename]

Cached(zip_files, filename) == \E i \in 1 .. Len(zip_files) : zip_files[i][1] = filename

\* cache with the entry for filename taken out, the rest in order
Without(zip_files, filename) == SelectSeq(zip_files, LAMBDA e : e[1] # filename)

(***************************************************************************)
(* C25: the zip-file cache never holds more than MAX_ZIP_FILES entries and *)
(* never two entries for the same filename; a get_zip_file hit returns the *)
(* cached object and moves its entry to the front; a miss opens the file   *)
(* and inserts it at the front, first evicting the entry at the back (the  *)
(* least recently used) when the cache is full; drop_zip_file removes the  *)
(* entry for that filename and is a no-op when there is none.              *)
(***************************************************************************)
C25_ZipCache ==
  (song_db # None) =>
    /\ Len(song_db.zip_files) <= MAX_ZIP_FILES
    /\ \A i, j \in 1 .. Len(song_db.zip_files) :
         song_db.zip_files[i][1] = song_db.zip_files[j][1] => i = j
    /\ call # None =>
         LET before == The(call).before
             filename == The(call).filename
             after == song_db.zip_files
             res == The(result)
         IN IF The(call).fn = "get_zip_file"
            THEN IF Cached(before, filename)
                 THEN /\ res.zf = Some(EntryFor(before, filename)[2])
                      /\ ~res.opened
                      /\ after = <<EntryFor(before, filename)>> \o Without(before, filename)
                 ELSE /\ res.opened <=> res.zf # None
                      /\ res.opened =>
                           /\ after = <<<<filename, The(res.zf)>>>> \o
                                        (IF Len(before) = MAX_ZIP_FILES
                                         THEN SubSeq(before, 1, Len(before) - 1)
                                         ELSE before)
                           /\ \A e \in Range(before) : e[2] # The(res.zf)
                      /\ ~res.opened => after = before
            ELSE /\ after = Without(before, filename)
                 /\ ~Cached(before, filename) => after = before

\* a miss on a full cache has evicted the entry at the back, which was not
\* the entry inserted first
C25_Witness ==
  /\ song_db # None /\ call # None
  /\ The(call).fn = "get_zip_file"
  /\ Len(The(call).before) = MAX_ZIP_FILES
  /\ ~Cached(The(call).before, The(call).filename)
  /\ The(result).opened
  /\ Len(song_db.zip_files) = MAX_ZIP_FILES
  /\ The(call).before[MAX_ZIP_FILES][2] # 1

\* the step is a do_packets call that processed exactly one packet, and
\* that packet went to the handler of instruction inst
OnePacketStep(inst) ==
  /\ op' = "do_packets"
  /\ applied' = applied + 1
  /\ HasInstruction(PacketAt(applied'), inst)

\* the strips at the top and bottom (source: 12 pixels) and at the left and
\* right (source: 6 pixels) of the frame
BorderRegion ==
  {p \in Pixels : \/ p[2] \in 0 .. BlockH - 1
                  \/ p[2] \in CDG_FULL_HEIGHT - BlockH .. CDG_FULL_HEIGHT - 1
                  \/ p[1] \in 0 .. BlockW - 1
                  \/ p[1] \in CDG_FULL_WIDTH - BlockW .. CDG_FULL_WIDTH - 1}

(***************************************************************************)
(* C26: a border-preset packet with colour c different from the current    *)
(* border colour index sets exactly the border-region pixels to c, sets    *)
(* border_colour_index to c and leaves every interior pixel index, the     *)
(* colour table, the offsets, preset_colour_index and the dirty-tile set   *)
(* unchanged; with c equal to the current border colour index it changes   *)
(* nothing.                                                                *)
(***************************************************************************)
C26_BorderPreset ==
  [][OnePacketStep(CDG_INST_BORDER_PRESET) =>
       LET c == BitAnd(D(PacketAt(applied'), 0), 15)
       IN IF c # reader.cdg_border_colour_index
          THEN /\ \A p \in Pixels :
                    reader'.cdg_pixel_colours[p] =
                      IF p \in BorderRegion THEN c ELSE reader.cdg_pixel_colours[p]
               /\ reader'.cdg_border_colour_index = c
               /\ reader'.cdg_colour_table = reader.cdg_colour_table
               /\ reader'.h_offset = reader.h_offset
               /\ reader'.v_offset = reader.v_offset
               /\ reader'.cdg_preset_colour_index = reader.cdg_preset_colour_index
               /\ reader'.updated_tiles = reader.updated_tiles
          ELSE reader' = [reader EXCEPT !.cdg_data_pos = reader'.cdg_data_pos]]_vars

\* a border preset has repainted the border around pixels of other colours,
\* leaving the preset colour index as it was
C26_Witness ==
  /\ JustApplied
  /\ LastPacket # None
  /\ HasInstruction(The(LastPacket), CDG_INST_BORDER_PRESET)
  /\ reader.cdg_border_colour_index = 2
  /\ After(applied - 1).cdg_border_colour_index # 2
  /\ \A p \in BorderRegion : reader.cdg_pixel_colours[p] = 2
  /\ \E p \in Pixels \ BorderRegion : reader.cdg_pixel_colours[p] # 2
  /\ reader.cdg_preset_colour_index # 2

(***************************************************************************)
(* A third family of CDG buffers: at most one scroll packet that sets the  *)
(* offsets, then one tile block, normal or XOR, at every position of the   *)
(* buffer and at positions beyond it.                                      *)
(***************************************************************************)
\* row bytes (data[3]): every block column of the buffer, the first
\* positions beyond it, and bytes with bits 6 and 7 set
RowBytes == (0 .. CDG_FULL_WIDTH \div BlockW + 1) \cup {63, 64 + 1, 255}
\* column bytes (data[2]): every block row, positions beyond, bits 5 to 7
ColumnBytes == (0 .. CDG_FULL_HEIGHT \div BlockH + 1) \cup {31, 32 + 1, 255}

\* tile block with colours 5 / 10 and a two-line bitmap
P_TileBlockAt(inst, column_byte, row_byte) ==
  Packet24(CDG_COMMAND, inst, <<5, 10, column_byte, row_byte, 32, 16>>)

\* scroll preset without a direction code: sets the offsets only
P_SetOffsets(h_offset, v_offset) ==
  Packet24(CDG_COMMAND, CDG_INST_SCROLL_PRESET, <<0, h_offset, v_offset>>)

\* none, the greatest offsets, and offset fields beyond them (7 and 15)
OffsetPackets ==
  {<<>>, <<P_SetOffsets(BlockW - 1, 0)>>, <<P_SetOffsets(BlockW - 1, BlockH - 1)>>,
   <<P_SetOffsets(7, 15)>>}

TileStreams ==
  {Flatten(pre \o <<P_TileBlockAt(inst, c, w)>>) :
     pre \in OffsetPackets,
     inst \in {CDG_INST_TILE_BLOCK, CDG_INST_TILE_BLOCK_XOR},
     c \in ColumnBytes, w \in RowBytes}

InitTiles ==
  /\ MidiIdle /\ AppIdle
  /\ cdg_data \in TileStreams
  /\ reader = NewReader
  /\ ret = None
  /\ call_pos = 0
  /\ applied = 0
  /\ shown = None
  /\ op = "init"

SpecTiles == InitTiles /\ [][Next]_vars

\* the step is a do_packets call that processed exactly one packet, a tile
\* block without the "ignore" bit
TileBlockStep ==
  /\ op' = "do_packets"
  /\ applied' = applied + 1
  /\ IsTileBlock(PacketAt(applied'))
  /\ BitAnd(D(PacketAt(applied'), 1), 32) = 0

\* the rectangles of one block that lie wholly inside the buffer
BlocksInside ==
  {{p \in Pixels : InBlock(p, x, y)} :
     x \in 0 .. CDG_FULL_WIDTH - BlockW, y \in 0 .. CDG_FULL_HEIGHT - BlockH}

(***************************************************************************)
(* C27: for every value of a tile-block packet's row and column bytes and  *)
(* every reachable h_offset and v_offset, the packet writes only the       *)
(* pixels of one block-sized rectangle that lies wholly inside the buffer  *)
(* (all of them, and all other pixel indices are unchanged), the call      *)
(* returns, and every tile returned by get_dirty_tiles afterwards has      *)
(* 0 <= row < TILES_PER_ROW and 0 <= col < TILES_PER_COL, also for         *)
(* rectangles at the edges of the buffer with the greatest offsets.        *)
(***************************************************************************)
C27_TileBlockInBounds ==
  /\ [][TileBlockStep =>
          LET packd == PacketAt(applied')
              block == TileBlockOf(packd)
              colours == {BitAnd(D(packd, 0), 15), BitAnd(D(packd, 1), 15)}
          IN /\ block \in BlocksInside
             /\ Cardinality(block) = BlockW * BlockH
             /\ \A p \in Pixels \ block :
                  /\ reader'.cdg_pixel_colours[p] = reader.cdg_pixel_colours[p]
                  /\ reader'.cdg_surfarray[p] = reader.cdg_surfarray[p]
             /\ \A p \in block :
                  reader'.cdg_pixel_colours[p] \in
                    IF HasInstruction(packd, CDG_INST_TILE_BLOCK) THEN colours
                    ELSE {BitXor(reader.cdg_pixel_colours[p], c) : c \in colours}
             /\ reader'.h_offset = reader.h_offset
             /\ reader'.v_offset = reader.v_offset
             /\ ret' = Some(TRUE)]_vars
  /\ [](reader # None =>
          /\ reader.h_offset \in 0 .. BlockW - 1
          /\ reader.v_offset \in 0 .. BlockH - 1
          /\ \A t \in Range(GetDirtyTiles(reader).tiles) :
               /\ 0 <= t[1] /\ t[1] < TILES_PER_ROW
               /\ 0 <= t[2] /\ t[2] < TILES_PER_COL)

\* a tile block whose position bytes lie beyond the buffer was written into
\* the last block of the buffer, with both offsets at their greatest value,
\* after the tiles had been drained
C27_Witness ==
  /\ JustApplied
  /\ LastPacket # None
  /\ IsTileBlock(The(LastPacket))
  /\ shown # None
  /\ reader.h_offset = BlockW - 1
  /\ reader.v_offset = BlockH - 1
  /\ BitAnd(D(The(LastPacket), 3), 63) * BlockW > CDG_FULL_WIDTH - BlockW
  /\ BitAnd(D(The(LastPacket), 2), 31) * BlockH > CDG_FULL_HEIGHT - BlockH
  /\ \A p \in TileBlockOf(The(LastPacket)) : reader.cdg_pixel_colours[p] \in {5, 10}
  /\ <<CDG_FULL_WIDTH - 1, CDG_FULL_HEIGHT - 1>> \in TileBlockOf(The(LastPacket))

\* the step is a do_packets call that processed exactly one packet, a
\* scroll preset or a scroll copy
ScrollStep ==
  /\ op' = "do_packets"
  /\ applied' = applied + 1
  /\ \/ HasInstruction(PacketAt(applied'), CDG_INST_SCROLL_PRESET)
     \/ HasInstruction(PacketAt(applied'), CDG_INST_SCROLL_COPY)

\* pix shifted by dx along the horizontal and by dy along the vertical
\* axis; what leaves the buffer comes back at the opposite edge (copy) or
\* is replaced by colour
ShiftedBoth(pix, dx, dy, copy, colour) ==
  [p \in Pixels |->
     IF copy
     THEN pix[<<(p[1] + dx) % CDG_FULL_WIDTH, (p[2] + dy) % CDG_FULL_HEIGHT>>]
     ELSE IF <<p[1] + dx, p[2] + dy>> \in Pixels
     THEN pix[<<p[1] + dx, p[2] + dy>>]
     ELSE colour]

(***************************************************************************)
(* C28: a scroll-copy or scroll-preset packet shifts the pixel buffer      *)
(* along each axis independently according to that axis's direction code:  *)
(* by one block width left or right when the horizontal code is 1 or 2 and *)
(* by one block height up or down when the vertical code is 1 or 2, so a   *)
(* packet with both codes non-zero shifts the buffer along both axes; a    *)
(* code of 0 or 3 leaves that axis unshifted.                              *)
(***************************************************************************)
C28_ScrollBothAxes ==
  [][ScrollStep =>
       LET packd == PacketAt(applied')
       IN reader'.cdg_pixel_colours =
            ShiftedBoth(reader.cdg_pixel_colours,
                        CalcHorizontalScroll(HScrollCmd(packd)),
                        CalcVerticalScroll(VScrollCmd(packd)),
                        HasInstruction(packd, CDG_INST_SCROLL_COPY),
                        BitAnd(D(packd, 0), 15))]_vars

(***************************************************************************)
(* Streams of scroll packets for the offsets: one scroll preset or scroll  *)
(* copy whose data[1] and data[2] take every value of the offset fields    *)
(* (3 and 4 bits) and some values with the direction bits set, alone or    *)
(* followed by a second scroll packet.                                     *)
(***************************************************************************)
HScrollBytes == (0 .. 7) \cup {23, 39, 63}

VScrollBytes == (0 .. 15) \cup {31, 47, 63}

P_Scroll(inst, h_scroll, v_scroll) ==
  Packet24(CDG_COMMAND, inst, <<3, h_scroll, v_scroll>>)

OffsetStreams ==
  {Flatten(<<P_Scroll(inst, h, v)>> \o post) :
     inst \in {CDG_INST_SCROLL_PRESET, CDG_INST_SCROLL_COPY},
     h \in HScrollBytes, v \in VScrollBytes,
     post \in {<<>>, <<P_SetOffsets(0, 0)>>, <<P_SetOffsets(7, 15)>>}}

InitOffsets ==
  /\ MidiIdle /\ AppIdle
  /\ cdg_data \in OffsetStreams
  /\ reader = NewReader
  /\ ret = None
  /\ call_pos = 0
  /\ applied = 0
  /\ shown = None
  /\ op = "init"

SpecOffsets == InitOffsets /\ [][Next]_vars

\* the pixel indices of the slice fill_tile takes, before any clipping by
\* the array
FillTileRegion(r, row, col) ==
  (BlockW + r.h_offset + row * TILE_WIDTH
     .. BlockW + r.h_offset + (row + 1) * TILE_WIDTH - 1)
  \X (BlockH + r.v_offset + col * TILE_HEIGHT
        .. BlockH + r.v_offset + (col + 1) * TILE_HEIGHT - 1)

SampleBytes == {0, 21, 42, 63, 85, 170, 255}

ColourData(a, b, first) ==
  [k \in 1 .. 16 |->
     IF (k % 2 = 1) = first THEN 8 * a + ((k - 1) \div 2) ELSE b]

ColourStreams ==
  {Packet24(CDG_COMMAND, inst, ColourData(a, b, first)) :
     inst \in {CDG_INST_LOAD_COL_TBL_0_7, CDG_INST_LOAD_COL_TBL_8_15},
     a \in 0 .. 31, b \in SampleBytes, first \in BOOLEAN}

InitColours ==
  /\ MidiIdle /\ AppIdle
  /\ cdg_data \in ColourStreams
  /\ reader = NewReader
  /\ ret = None
  /\ call_pos = 0
  /\ applied = 0
  /\ shown = None
  /\ op = "init"

SpecColours == InitColours /\ [][Next]_vars

\* the step is a do_packets call that processed exactly one packet, a load
\* of one half of the colour table
LoadColourTableStep ==
  /\ op' = "do_packets"
  /\ applied' = applied + 1
  /\ \/ HasInstruction(PacketAt(applied'), CDG_INST_LOAD_COL_TBL_0_7)
     \/ HasInstruction(PacketAt(applied'), CDG_INST_LOAD_COL_TBL_8_15)

\* the channels of a stored colour
RedOf(colour) == colour \div 65536

GreenOf(colour) == (colour \div 256) % 256

BlueOf(colour) == colour % 256

\* the three channels the packing gives for data bytes hi and lo, by
\* arithmetic on the bytes
PackedChannels(hi, lo) ==
  <<17 * ((hi \div 4) % 16),
    17 * (4 * (hi % 4) + ((lo \div 16) % 4)),
    17 * (lo % 16)>>

(***************************************************************************)
(* C30: for each of the 8 slots of a load-colour-table packet with data    *)
(* bytes hi and lo, the stored colour is red = 17 * ((hi >> 2) & 15),      *)
(* green = 17 * (((hi & 3) << 2) | ((lo >> 4) & 3)), blue = 17 * (lo &     *)
(* 15); it depends only on the low 6 bits of each byte and every channel   *)
(* is a multiple of 17 in 0..255.                                          *)
(***************************************************************************)
C30_ColourPacking ==
  [][LoadColourTableStep =>
       LET packd == PacketAt(applied')
           start == IF HasInstruction(packd, CDG_INST_LOAD_COL_TBL_0_7) THEN 0 ELSE 8
       IN \A i \in 0 .. 7 :
            LET hi == D(packd, 2 * i)
                lo == D(packd, 2 * i + 1)
                colour == reader'.cdg_colour_table[start + i]
            IN /\ <<RedOf(colour), GreenOf(colour), BlueOf(colour)>>
                    = PackedChannels(hi, lo)
               /\ PackedChannels(hi, lo) = PackedChannels(hi % 64, lo % 64)
               /\ \A c \in {RedOf(colour), GreenOf(colour), BlueOf(colour)} :
                    c \in 0 .. 255 /\ c % 17 = 0]_vars

\* a load of the high half has stored, from bytes with bits 6 and 7 set, a
\* colour whose green channel takes bits from both bytes
C30_Witness ==
  /\ JustApplied
  /\ LastPacket # None
  /\ HasInstruction(The(LastPacket), CDG_INST_LOAD_COL_TBL_8_15)
  /\ D(The(LastPacket), 2) = 170
  /\ D(The(LastPacket), 3) = 249
  /\ reader.cdg_colour_table[9] = MapRGB(17 * 10, 17 * 11, 17 * 9)

(***************************************************************************)
(* Streams with a packet that has no effect between packets that have:     *)
(* subcode packets that are not CDG commands (with the instruction byte of *)
(* a memory preset or a tile block), CDG packets with an instruction that  *)
(* is not recognised, and a define-transparent-colour packet.              *)
(***************************************************************************)
P_NotCdg == Packet24(CDG_COMMAND - 1, CDG_INST_MEMORY_PRESET, <<5>>)

P_NotCdgHigh ==
  Packet24(CDG_COMMAND + 32, CDG_INST_TILE_BLOCK, <<3, 7, 1, 1, 63, 63>>)

P_UnknownInst == Packet24(CDG_COMMAND, 3, <<7, 7, 1, 1>>)

P_UnknownInstHigh == Packet24(CDG_COMMAND + 128, 63 + 64, <<9>>)

P_DefineTransparent == Packet24(CDG_COMMAND, CDG_INST_DEF_TRANSP_COL, <<6>>)

NoEffectPackets ==
  {P_NotCdg, P_NotCdgHigh, P_UnknownInst, P_UnknownInstHigh, P_DefineTransparent}

NoEffectStreams ==
  {Flatten(pre \o <<ign>> \o post) :
     pre \in {<<>>, <<P_LoadLow, P_TileBlock>>, <<P_ScrollPreset>>,
              <<P_MemoryPreset, P_BorderPreset>>},
     ign \in NoEffectPackets,
     post \in {<<>>, <<P_TileBlockXor>>, <<P_ScrollPreset>>, <<P_LoadLow>>,
               <<P_DefineTransparent, P_MemoryPreset>>}}

InitNoEffect ==
  /\ MidiIdle /\ AppIdle
  /\ cdg_data \in NoEffectStreams
  /\ reader = NewReader
  /\ ret = None
  /\ call_pos = 0
  /\ applied = 0
  /\ shown = None
  /\ op = "init"

SpecNoEffect == InitNoEffect /\ [][Next]_vars

RecognisedInstructions ==
  {CDG_INST_MEMORY_PRESET, CDG_INST_BORDER_PRESET, CDG_INST_TILE_BLOCK,
   CDG_INST_SCROLL_PRESET, CDG_INST_SCROLL_COPY, CDG_INST_DEF_TRANSP_COL,
   CDG_INST_LOAD_COL_TBL_0_7, CDG_INST_LOAD_COL_TBL_8_15,
   CDG_INST_TILE_BLOCK_XOR}

\* not a CDG command, a CDG command with an unrecognised instruction, or a
\* define-transparent-colour packet
HasNoEffect(packd) ==
  \/ packd.command % 64 # CDG_COMMAND
  \/ packd.instruction % 64 \notin RecognisedInstructions
  \/ packd.instruction % 64 = CDG_INST_DEF_TRANSP_COL

\* the step is a do_packets call that processed exactly one packet, one of
\* those without effect
NoEffectStep ==
  /\ op' = "do_packets"
  /\ applied' = applied + 1
  /\ HasNoEffect(PacketAt(applied'))

\* the decoder after those of the first k packets that have an effect
RECURSIVE ProcessKept(_)
ProcessKept(k) ==
  IF k = 0 THEN NewReader
  ELSE IF HasNoEffect(PacketAt(k)) THEN ProcessKept(k - 1)
  ELSE CdgPacketProcess(ProcessKept(k - 1), PacketAt(k))

\* the decoder state without the cursor, the dirty mask and the recorded
\* transparent colour
Rendered(r) == [RenderState(r) EXCEPT !.cdg_transparent_colour = NoColour]

(***************************************************************************)
(* C31: a packet whose command byte masked to 6 bits is not the CDG        *)
(* command code, a CDG packet whose masked instruction is not a recognised *)
(* one, and a define-transparent-colour packet each leave pixel_colours,   *)
(* surface, colour_table, h_offset, v_offset, the preset, border and       *)
(* just-cleared indices and the dirty-tile set unchanged; the cursor still *)
(* advances by one packet and the following packets are decoded normally   *)
(* (the decoder is always in the state the packets with an effect alone    *)
(* would have produced).                                                   *)
(***************************************************************************)
C31_NoEffectPackets ==
  /\ [][NoEffectStep =>
          /\ reader' = [reader EXCEPT
                          !.cdg_data_pos = @ + PacketSize,
                          !.cdg_transparent_colour = reader'.cdg_transparent_colour]
          /\ ret' = Some(TRUE)]_vars
  /\ [](Rendered(reader) = Rendered(ProcessKept(applied)))

\* after a painted block, a packet that is not a CDG command but carries
\* the instruction byte of a memory preset was passed over, and the XOR
\* block after it was painted over the still uncleared buffer
C31_Witness ==
  /\ op = "do_packets"
  /\ applied = 4
  /\ reader.cdg_data_pos = 4 * PacketSize
  /\ IsTileBlock(PacketAt(2))
  /\ PacketAt(3).command % 64 # CDG_COMMAND
  /\ PacketAt(3).instruction = CDG_INST_MEMORY_PRESET
  /\ HasInstruction(PacketAt(4), CDG_INST_TILE_BLOCK_XOR)
  /\ \E p \in TileBlockOf(PacketAt(2)) : reader.cdg_pixel_colours[p] # 0
  /\ \E p \in TileBlockOf(PacketAt(4)) : reader.cdg_pixel_colours[p] # 0

(***************************************************************************)
(* C32: the first set-tempo event of a file governs timing from tick 0: if *)
(* it occurs at tick T0 > 0 with tempo P, the ticks in [0, T0) are         *)
(* converted at tempo P, so a converter advanced to a tick t <= T0 is at   *)
(* t * P / ticks_per_quarter / 1000 ms.                                    *)
(***************************************************************************)
C32_FirstTempoFromZero ==
  LET mf == midifile
      q == mf.click_units_per_quarter
  IN (/\ Len(mf.tempo) >= 2 /\ mf.tempo[2][1] > 0
      /\ ClickSorted(mf.tempo)
      /\ q # None /\ The(q) > 0
      /\ ts.click <= mf.tempo[2][1])
     => ts.ms = ts.click * mf.tempo[2][2]

(***************************************************************************)
(* Specification SpecTiming: midi_parse_data on files of one lyric track   *)
(* between two tracks that carry the set-tempo events.  The lyric track    *)
(* has one to three text or lyric events at delta times 0, 2 or 5, with    *)
(* line and paragraph breaks and embedded newlines; the set-tempo events   *)
(* (1 ms and 2 ms per click at 96 clicks per quarter) are placed in the    *)
(* track before or in the track after the lyric track.                     *)
(***************************************************************************)
Str_Break == <<Ch_LF>>

Str_SlashLa == <<Ch_Slash>> \o Str_la

Str_ParaLa == <<Ch_Backslash>> \o Str_la

Str_TwoLines == Str_la \o <<Ch_LF>> \o Str_la

\* text events (0x01) and lyric events (0x05)
SyllableEvents ==
  {MetaEvent(d, 1, t) : d \in {0, 2, 5}, t \in {Str_la, Str_SlashLa, Str_ParaLa}}
    \cup {MetaEvent(d, 5, t) : d \in {0, 2, 5}, t \in {Str_la, Str_Break, Str_TwoLines}}

SyllableTracks ==
  {<<a>> \o <<E_EndOfTrack>> : a \in SyllableEvents}
    \cup {<<a, b>> \o <<E_EndOfTrack>> : a \in SyllableEvents, b \in SyllableEvents}
    \cup {<<MetaEvent(2, k, Str_la), MetaEvent(0, k, Str_SlashLa), b, E_EndOfTrack>> :
            k \in {1, 5}, b \in SyllableEvents}

\* set-tempo events of 96000 and 192000 microseconds per quarter
E_TempoSlow(delta) == MetaEvent(delta, 81, <<2, 238, 0>>)

E_TempoFast(delta) == MetaEvent(delta, 81, <<1, 119, 0>>)

\* the two tempo tracks of a file: the sets of set-tempo events {}, {0},
\* {0, 4}, {3}, {2, 6} (by tick), each distributed over the two tracks
TempoTrackPairs ==
  {<< <<>>, <<>> >>,
   << <<E_TempoSlow(0)>>, <<>> >>,
   << <<>>, <<E_TempoSlow(0)>> >>,
   << <<E_TempoSlow(0), E_TempoFast(4)>>, <<>> >>,
   << <<>>, <<E_TempoSlow(0), E_TempoFast(4)>> >>,
   << <<E_TempoSlow(0)>>, <<E_TempoFast(4)>> >>,
   << <<E_TempoFast(4)>>, <<E_TempoSlow(0)>> >>,
   << <<E_TempoSlow(3)>>, <<>> >>,
   << <<>>, <<E_TempoSlow(3)>> >>,
   << <<E_TempoFast(2), E_TempoSlow(4)>>, <<>> >>,
   << <<E_TempoFast(2)>>, <<E_TempoSlow(6)>> >>,
   << <<E_TempoSlow(6)>>, <<E_TempoFast(2)>> >>}

TimingFiles ==
  {[type |-> Str_MThd, division |-> QuarterDivision,
    tracks |-> <<tp[1] \o <<E_EndOfTrack>>, st, tp[2] \o <<E_EndOfTrack>> >>] :
     tp \in TempoTrackPairs, st \in SyllableTracks}

InitTiming ==
  /\ CdgIdle /\ TsIdle /\ SelIdle /\ AppIdle
  /\ midifile = NewMidiFile
  /\ \E f \in TimingFiles :
       parse = [input |-> [file |-> f, cut |-> Len(Encode(f))],
                midi_data |-> Encode(f),
                pos |-> 0, pc |-> "header", track |-> None, length |-> 0, track_num |-> 0,
                result |-> "pending", exc |-> None, errors |-> <<>>]

SpecTiming == InitTiming /\ [][NextParse]_vars

\* midi_parse_data has returned a MidiFile
Parsed == parse.pc = "done" /\ parse.result = "MidiFile" /\ midifile.lyrics # None

\* the lyrics list chosen by the parser
ChosenList == Deref(midifile.track_list, The(midifile.lyrics)).list

(***************************************************************************)
(* C33: in the lyrics list chosen by the parser, syllable ticks are        *)
(* non-decreasing in list order and syllable line numbers are              *)
(* non-decreasing in list order; after compute_timing the assigned         *)
(* millisecond values are also non-decreasing in list order.               *)
(***************************************************************************)
C33_LyricsListOrdered ==
  Parsed =>
    \A k \in 1 .. Len(ChosenList) - 1 :
      /\ ChosenList[k].click <= ChosenList[k + 1].click
      /\ ChosenList[k].line <= ChosenList[k + 1].line
      /\ ChosenList[k].ms # None /\ ChosenList[k + 1].ms # None
      /\ The(ChosenList[k].ms) <= The(ChosenList[k + 1].ms)

\* a chosen list of at least three syllables over two lines, timed over a
\* tempo change, whose ticks, lines and times all rise
C33_Witness ==
  /\ Parsed
  /\ Len(ChosenList) >= 3
  /\ Len(midifile.tempo) = 3
  /\ ChosenList[1].click < ChosenList[Len(ChosenList)].click
  /\ ChosenList[1].line < ChosenList[Len(ChosenList)].line
  /\ ChosenList[1].ms # None
  /\ 0 < The(ChosenList[1].ms)
  /\ The(ChosenList[1].ms) < The(ChosenList[Len(ChosenList)].ms)
  /\ ChosenList[2].line = ChosenList[1].line + 1

\* a tempo list with entry k moved forward past every earlier entry of a
\* greater click: the list ordered by click, entries of equal click in
\* their list order
RECURSIVE InsertByClick(_, _)
InsertByClick(sorted, entry) ==
  IF sorted = <<>> THEN <<entry>>
  ELSE IF sorted[Len(sorted)][1] <= entry[1] THEN Append(sorted, entry)
  ELSE Append(InsertByClick(SubSeq(sorted, 1, Len(sorted) - 1), entry),
              sorted[Len(sorted)])

RECURSIVE SortByClick(_)
SortByClick(tempo) ==
  IF tempo = <<>> THEN <<>>
  ELSE InsertByClick(SortByClick(SubSeq(tempo, 1, Len(tempo) - 1)), tempo[Len(tempo)])

\* the times compute_timing gives the chosen list's syllables in the file
\* that carries the same set-tempo events in one track, in tick order
TimesInTickOrder ==
  TimeSyllables([midifile EXCEPT !.tempo = SortByClick(@)], ChosenList, 1,
                NewMidiTimestamp).list

(***************************************************************************)
(* C36: the millisecond time assigned to a syllable depends only on the    *)
(* set of (tick, tempo) set-tempo events in the file, not on which tracks  *)
(* carry them or on the order of those tracks in the file: a file yields   *)
(* the syllable times of the file with the same lyric events and the same  *)
(* set-tempo events all in one track in tick order.                        *)
(***************************************************************************)
C36_TempoDistributionIrrelevant ==
  Parsed =>
    \A k \in 1 .. Len(ChosenList) : ChosenList[k].ms = TimesInTickOrder[k].ms

(***************************************************************************)
(*            Lyrics.word_wrap_lyrics on timed syllable lists              *)
(*                                                                         *)
(* call holds the call under way: the list, the index k of the next        *)
(* syllable of the for loop, the place in the code (pc: "loop" at the top  *)
(* of the for loop, "fold" at the test of the inner while loop) and the    *)
(* locals lines, current_line, current_text, x and line_number.  The font  *)
(* gives every character the width 1, and the display is MaxWidth wide     *)
(* between the borders.  manager.find_fold_point answers with any offset   *)
(* that leaves text other than blanks in front of it, or with the length   *)
(* of the text when there is no suitable break.                            *)
(***************************************************************************)
X_BORDER == 20
MaxWidth == 4
MaxWrapSyllables == 3

\* font.size(text)[0]
FontWidth(text) == Len(text)

Str_TwoSpaces == <<Ch_Space, Ch_Space>>

\* LyricSyllable.make_copy (kar.py:293-298)
MakeCopy(syllable, text) ==
  [LyricSyllable(syllable.click, text, syllable.line, syllable.type)
     EXCEPT !.ms = syllable.ms]

\* "".join(s.text for s in line)
RECURSIVE JoinTexts(_)
JoinTexts(line) ==
  IF line = <<>> THEN <<>> ELSE Head(line).text \o JoinTexts(Tail(line))

\* the offsets manager.find_fold_point may return for the text
FindFoldPoint(text) ==
  {k \in 1 .. Len(text) : \E j \in 1 .. k : text[j] # Ch_Space} \cup {Len(text)}

\* the first while loop of _fold_line (kar.py:554-558): the index i and the
\* count n it ends with; current_line[i] past the end of the list raises
RECURSIVE FoldIndex(_, _, _, _)
FoldIndex(current_line, fold_point, i, n) ==
  IF i >= Len(current_line) THEN [i |-> i, n |-> n, exc |-> Some("IndexError")]
  ELSE IF n + Len(current_line[i + 1].text) <= fold_point
  THEN FoldIndex(current_line, fold_point, i + 1, n + Len(current_line[i + 1].text))
  ELSE [i |-> i, n |-> n, exc |-> None]

FoldLine_CutsAtFold(current_line, current_text, fold_point) ==
  LET at == FoldIndex(current_line, fold_point, 0, 0)
      syllable == current_line[at.i + 1]
      head == SubSeq(current_line, 1, at.i)
      rest == SubSeq(current_line, at.i + 2, Len(current_line))
      remaining_line ==
        <<MakeCopy(syllable, Str_TwoSpaces \o From(syllable.text, fold_point - at.n))>>
          \o rest
  IN IF fold_point = Len(current_text) THEN None
     ELSE IF at.exc # None THEN Some([exc |-> at.exc])
     ELSE Some([exc |-> None,
                output_line |-> IF at.i = 0
                                THEN <<MakeCopy(syllable, SubSeq(syllable.text, 1, fold_point))>>
                                ELSE head,
                remaining_line |-> remaining_line,
                remaining_text |-> JoinTexts(remaining_line)])

(***************************************************************************)
(* Lyrics._fold_line (kar.py:538-571) for the fold point the manager       *)
(* returned: None, or the output line and the remaining line and text.     *)
(***************************************************************************)
FoldLine(current_line, current_text, fold_point) ==
  LET at == FoldIndex(current_line, fold_point, 0, 0)
      syllable == current_line[at.i + 1]
      head == SubSeq(current_line, 1, at.i)
      rest == SubSeq(current_line, at.i + 2, Len(current_line))
      remaining_line ==
        IF at.i = 0
        THEN <<MakeCopy(syllable, Str_TwoSpaces \o From(syllable.text, fold_point))>>
               \o rest
        ELSE <<MakeCopy(syllable, Str_TwoSpaces \o syllable.text)>> \o rest
  IN IF fold_point = Len(current_text) THEN None
     ELSE IF at.exc # None THEN Some([exc |-> at.exc])
     ELSE Some([exc |-> None,
                output_line |-> IF at.i = 0
                                THEN <<MakeCopy(syllable, SubSeq(syllable.text, 1, fold_point))>>
                                ELSE head,
                remaining_line |-> remaining_line,
                remaining_text |-> JoinTexts(remaining_line)])

\* word_wrap_lyrics up to the for loop (kar.py:494-504)
NewWordWrap(list) ==
  [fn |-> "word_wrap_lyrics", list |-> list, k |-> 1, pc |-> "loop",
   lines |-> <<>>, current_line |-> <<>>, current_text |-> <<>>, x |-> 0,
   line_number |-> IF list = <<>> THEN 0 ELSE list[1].line]

\* one pass of the for loop up to the test of the inner while loop
\* (kar.py:505-519)
WrapSyllable(w) ==
  LET syllable == [w.list[w.k] EXCEPT !.left = None, !.right = None]
      skipped == Max(syllable.line - w.line_number, 0)
      w1 == IF skipped > 0
            THEN [w EXCEPT !.lines = @ \o <<w.current_line>>
                                       \o [j \in 1 .. skipped - 1 |-> <<>>],
                           !.x = 0, !.current_line = <<>>, !.current_text = <<>>,
                           !.line_number = @ + skipped]
            ELSE w
      x == w1.x + FontWidth(syllable.text)
  IN [w1 EXCEPT !.list[w.k] = syllable,
                !.current_line = Append(@, syllable),
                !.current_text = @ \o syllable.text,
                !.x = x,
                !.k = @ + 1,
                !.pc = IF x > MaxWidth THEN "fold" ELSE "loop"]

\* one pass of the inner while loop (kar.py:520-526)
WrapFold(w, fold_point) ==
  LET Folded(res) ==
        IF res = None THEN [w EXCEPT !.pc = "loop"]
        ELSE IF The(res).exc # None THEN [w EXCEPT !.pc = "raised"]
        ELSE [w EXCEPT !.lines = Append(@, The(res).output_line),
                       !.current_line = The(res).remaining_line,
                       !.current_text = The(res).remaining_text,
                       !.x = FontWidth(The(res).remaining_text),
                       !.pc = IF FontWidth(The(res).remaining_text) > MaxWidth
                              THEN "fold" ELSE "loop"]
  IN Folded(FoldLine(w.current_line, w.current_text, fold_point))

\* after the for loop (kar.py:528-536), and the early return of an empty list
WrapReturn(w) ==
  IF w.list = <<>> THEN <<>>
  ELSE LET lines == Append(w.lines, w.current_line)
       IN [j \in 1 .. Len(lines) |->
             IF lines[j] = <<>> THEN <<>>
             ELSE [lines[j] EXCEPT ![1].left = Some(X_BORDER)]]

\* timed syllable lists: texts with and without blanks; all syllables on one
\* line, a line break or a blank line after the first syllable, or every
\* syllable on a line of its own; ticks 1, 2, 3, ... and 10 ms per tick
WrapTexts ==
  {<<97, 32>>, <<32, 98>>, <<97, 98, 99, 100, 101>>, <<97, 32, 98, 32, 99>>, <<>>}

WrapList(texts, step) ==
  [i \in 1 .. Len(texts) |->
     [LyricSyllable(i, texts[i],
                    IF step = 3 THEN i - 1 ELSE IF i = 1 THEN 0 ELSE step,
                    TEXT_LYRIC)
        EXCEPT !.ms = Some(10 * i)]]

WrapLists ==
  {<<>>} \cup
  UNION {{WrapList(texts, step) : texts \in [1 .. n -> WrapTexts], step \in 0 .. 3} :
           n \in 1 .. MaxWrapSyllables}

InitWrap ==
  /\ CdgIdle /\ MidiIdle /\ PlayerIdle /\ BackendIdle /\ DbIdle
  /\ call \in {NewWordWrap(l) : l \in WrapLists}
  /\ result = None

WrapSyllableAct ==
  /\ call.pc = "loop"
  /\ result = None
  /\ call.k <= Len(call.list)
  /\ call' = WrapSyllable(call)
  /\ UNCHANGED <<result, player, poll_log, backend, song_db, cdg_vars, midi_vars>>

WrapFoldAct ==
  /\ call.pc = "fold"
  /\ \E fold_point \in FindFoldPoint(call.current_text) :
       call' = WrapFold(call, fold_point)
  /\ UNCHANGED <<result, player, poll_log, backend, song_db, cdg_vars, midi_vars>>

WrapReturnAct ==
  /\ call.pc = "loop"
  /\ result = None
  /\ call.k > Len(call.list)
  /\ result' = Some(WrapReturn(call))
  /\ UNCHANGED <<call, player, poll_log, backend, song_db, cdg_vars, midi_vars>>

NextWrap ==
  \/ WrapSyllableAct
  \/ WrapFoldAct
  \/ WrapReturnAct

SpecWrap == InitWrap /\ [][NextWrap]_vars

\* the characters of a line of syllables, each with the tick and ms of the
\* syllable that carries it
RECURSIVE Tagged(_)
Tagged(line) ==
  IF line = <<>> THEN <<>>
  ELSE [j \in 1 .. Len(Head(line).text) |->
          <<Head(line).text[j], Head(line).click, Head(line).ms>>]
       \o Tagged(Tail(line))

\* the output lines that hold syllables of logical line n, in output order
SubLines(out, n) == SelectSeq(out, LAMBDA l : l # <<>> /\ l[1].line = n)

\* the sub-lines of one logical line put together again: the first as it
\* is, every continuation without its first two characters
RECURSIVE Rejoined(_, _)
Rejoined(subs, j) ==
  IF j > Len(subs) THEN <<>>
  ELSE (IF j = 1 THEN Tagged(subs[j]) ELSE From(Tagged(subs[j]), 2))
       \o Rejoined(subs, j + 1)

InputLine(list, n) == SelectSeq(list, LAMBDA s : s.line = n)

\* word_wrap_lyrics has returned
Wrapped == call # None /\ call.fn = "word_wrap_lyrics" /\ result # None

C35_PlaylistIndexValid ==
  backend # None =>
    /\ -1 <= backend.obj.playlist_index
    /\ backend.obj.playlist_index < Len(backend.obj.playlist)
    /\ backend.obj.playlist = <<>> => backend.obj.playlist_index = -1

(***************************************************************************)
(* C37: CLOSED is a terminal player state: once a player has reached       *)
(* CLOSED, no later play, pause, close, rewind, stop, shutdown or poll     *)
(* (do_stuff) changes its state, and the done callback, having been        *)
(* invoked once on the way to CLOSED, is never invoked a second time.      *)
(***************************************************************************)
C37_ClosedIsTerminal ==
  [][(player # None /\ player.obj.state = "STATE_CLOSED")
       => (player'.obj.state = "STATE_CLOSED" /\ player'.done_calls = 0)]_vars

(***************************************************************************)
(*        Playing a CDG stream to its end (cdg.py, player.py)              *)
(*                                                                         *)
(* The player has been given a done callback and is polled by the main     *)
(* loop; while it is PLAYING every poll sees a later playback position     *)
(* than the poll before it.  The player record carries, next to the fields *)
(* of NewCdgPlayer, the callback and the number of times it was called.    *)
(***************************************************************************)
PlaybackPositions == {-5, 0, 4, 7, 10, 11, 20, 30}
\* the last position that is polled
LastPosition == CHOOSE m \in PlaybackPositions : \A q \in PlaybackPositions : q <= m

PlaybackInputs ==
  PollInputs \cup {<<>>, Flatten(<<P_MemoryPreset>>)}

\* no whole packet is left in the stream (cdg_aux.py:222-229)
Exhausted == Len(cdg_data) - reader.cdg_data_pos < PacketSize

CdgShutdown_NoNotify(p) ==
  [p |-> [p EXCEPT !.state = "STATE_CLOSED"], done_calls |-> 0]

\* CdgPlayer.shutdown (cdg.py:371-383): the music is stopped and the
\* surfaces and the packet reader are dropped, then PykPlayer.shutdown
CdgShutdown(p) ==
  PykShutdown(p)

InitPlayback ==
  /\ MidiIdle /\ BackendIdle /\ DbIdle /\ FnIdle
  /\ cdg_data \in PlaybackInputs
  /\ reader = NewReader
  /\ ret = None
  /\ call_pos = 0
  /\ applied = 0
  /\ shown = None
  /\ op = "init"
  /\ player = NewCdgPlayer @@ [song_finished_callback |-> TRUE, done_calls |-> 0]
  /\ poll_log = NewPollLog

\* CdgPlayer.do_stuff (cdg.py:384-409): PykPlayer.do_stuff shuts a CLOSING
\* player down (player.py:348-352) and nothing else happens to a player
\* that is closing or closed; otherwise the poll of DoStuffAct
PlaybackPollAct(pos) ==
  /\ IF player.state = "STATE_PLAYING" /\ poll_log.pos # None
     THEN pos > The(poll_log.pos)
     ELSE TRUE
  /\ IF player.state = "STATE_CLOSING"
     THEN \E res \in {CdgShutdown(player)} :
            /\ player' = [res.p EXCEPT !.done_calls = @ + res.done_calls]
            /\ op' = "do_stuff"
            /\ UNCHANGED <<cdg_data, reader, ret, call_pos, applied, shown, poll_log,
                           backend, song_db, fn_vars, midi_vars>>
     ELSE IF player.state = "STATE_CLOSED"
     THEN /\ op' = "do_stuff"
          /\ UNCHANGED <<cdg_data, reader, ret, call_pos, applied, shown, poll_log,
                         player, backend, song_db, fn_vars, midi_vars>>
     ELSE DoStuffAct(pos)

PlaybackPoll == \E pos \in PlaybackPositions : PlaybackPollAct(pos)

NextPlayback ==
  \/ PlayAct
  \/ PlaybackPoll

\* the main loop keeps polling the player (manager.py calls do_stuff on
\* every turn), and the clock keeps running
SpecPlayback == InitPlayback /\ [][NextPlayback]_vars /\ WF_vars(PlaybackPoll)

\* the playback position can still advance within the positions polled
ClockRunning == IF poll_log.pos = None THEN TRUE ELSE The(poll_log.pos) < LastPosition

(***************************************************************************)
(* C38: if the CDG player keeps being polled while PLAYING with a playback *)
(* position that keeps advancing, then once the packet stream is exhausted *)
(* the player eventually enters CLOSING and on a following poll reaches    *)
(* CLOSED with the done callback invoked exactly once; before the stream   *)
(* is exhausted a poll never closes the player on its own.                 *)
(***************************************************************************)
C38_ClosesAtEndOfStream ==
  /\ (player.state = "STATE_PLAYING" /\ Exhausted /\ ClockRunning)
       ~> (player.state = "STATE_CLOSING")
  /\ (player.state = "STATE_CLOSING")
       ~> (player.state = "STATE_CLOSED" /\ player.done_calls = 1)
  /\ [](player.state = "STATE_CLOSED" => [](player.state = "STATE_CLOSED"))
  /\ [](player.done_calls = IF player.state = "STATE_CLOSED" THEN 1 ELSE 0)
  /\ [][/\ ~Exhausted => player'.state \notin {"STATE_CLOSING", "STATE_CLOSED"}
        /\ player'.state = "STATE_CLOSED" =>
             player.state \in {"STATE_CLOSING", "STATE_CLOSED"}]_vars

\* a stream of three packets has been played to its end and the player
\* closed by the polls alone
C38_Witness ==
  /\ player.state = "STATE_CLOSED"
  /\ player.done_calls = 1
  /\ applied = 3
  /\ op = "do_stuff"

(***************************************************************************)
(*            The KAR player's lyric cursor (kar.py, MidPlayer)            *)
(*                                                                         *)
(* The wrapped lyrics are a list of lines, each a list of syllables, of    *)
(* which only the ms matters here.  Lines and syllables are counted from   *)
(* 0 as in the source.  The playback position int(get_pos() +              *)
(* internal_offset_time + sync_delay_ms) is an input of every poll.        *)
(* Drawing is left out: it reads the cursor and does not write it.         *)
(***************************************************************************)
VIEW_PERCENT == 33
PARAGRAPH_LEAD_TIME == 5000

KarLyrics ==
  {<<<<0, 1000>>, <<7000>>>>,
   <<<<>>, <<0>>, <<7000>>, <<1000, 8000>>>>,
   <<<<1000, 7000>>, <<>>, <<8000>>>>,
   <<<<0>>, <<1000>>, <<7000>>>>}

KarTimes == {-1000, 0, 1000, 3000, 7000, 8000, 10000}

KarLastNotes == {3000, 9000}

KarRows == {1, 2}

\* the (line, syllable) positions of the lyrics from line on, in list order
RECURSIVE LyricPositions(_, _)
LyricPositions(lyrics, line) ==
  IF line >= Len(lyrics) THEN <<>>
  ELSE [i \in 1 .. Len(lyrics[line + 1]) |-> <<line, i - 1>>]
         \o LyricPositions(lyrics, line + 1)

\* lyrics[line][syllable].ms
MsAt(lyrics, q) == lyrics[q[1] + 1][q[2] + 1]

\* MidPlayer.__init__ (kar.py:1090-1140) with init_font (kar.py:1165-1171)
\* and reset_playing_state
NewMidPlayer(lyrics, num_rows, last_note_ms) ==
  [state |-> "STATE_INIT",
   lyrics |-> lyrics,
   num_rows |-> num_rows,
   view_row |-> (num_rows * VIEW_PERCENT) \div 100,
   last_note_ms |-> last_note_ms,
   current_ms |-> 0,
   top_line |-> 0,
   current_line |-> 0,
   current_colour_ms |-> 0,
   next_line |-> 0,
   next_syllable |-> 0,
   next_colour_ms |-> Some(0),
   next_change_ms |-> Some(0),
   op |-> "init"]

\* reset_playing_state (kar.py:1173-1204)
ResetPlayingState(p) ==
  [p EXCEPT !.current_ms = 0, !.top_line = 0, !.current_line = 0,
            !.current_colour_ms = 0, !.next_line = 0, !.next_syllable = 0,
            !.next_colour_ms = Some(0), !.next_change_ms = Some(0)]

GetNewSyllables_Strict(p) ==
  LET AtOrAfter(q) ==
        q[1] > p.next_line \/ (q[1] = p.next_line /\ q[2] >= p.next_syllable)
      Shown(rest, k) == \A j \in 1 .. k : ~(p.current_ms <= MsAt(p.lyrics, rest[j]))
      Scan(rest, n) ==
        LET syllables == SubSeq(rest, 1, n)
            p1 == IF n = 0 THEN p
                  ELSE [p EXCEPT !.current_line = rest[n][1],
                                 !.current_colour_ms = MsAt(p.lyrics, rest[n])]
        IN IF n < Len(rest)
           THEN [p |-> [p1 EXCEPT !.next_line = rest[n + 1][1],
                                  !.next_syllable = rest[n + 1][2],
                                  !.next_colour_ms = Some(MsAt(p.lyrics, rest[n + 1]))],
                 syllables |-> syllables]
           ELSE [p |-> [p1 EXCEPT !.next_line = Max(p.next_line, Len(p.lyrics)),
                                  !.next_syllable = IF p.next_line < Len(p.lyrics)
                                                    THEN 0 ELSE @,
                                  !.next_colour_ms = None],
                 syllables |-> syllables]
      First(rest) ==
        CHOOSE k \in 0 .. Len(rest) :
          Shown(rest, k) /\ (k < Len(rest) => ~Shown(rest, k + 1))
      ScanFrom(rest) == Scan(rest, First(rest))
  IN ScanFrom(SelectSeq(LyricPositions(p.lyrics, 0), AtOrAfter))

\* get_new_syllables (kar.py:1394-1424): the two loops go through the
\* syllables at or after the cursor in list order, skipping empty lines,
\* and stop in front of the first one whose ms is after current_ms; the
\* cursor is left on that one, or behind the last line
GetNewSyllables(p) ==
  LET AtOrAfter(q) ==
        q[1] > p.next_line \/ (q[1] = p.next_line /\ q[2] >= p.next_syllable)
      Shown(rest, k) == \A j \in 1 .. k : ~(p.current_ms < MsAt(p.lyrics, rest[j]))
      Scan(rest, n) ==
        LET syllables == SubSeq(rest, 1, n)
            p1 == IF n = 0 THEN p
                  ELSE [p EXCEPT !.current_line = rest[n][1],
                                 !.current_colour_ms = MsAt(p.lyrics, rest[n])]
        IN IF n < Len(rest)
           THEN [p |-> [p1 EXCEPT !.next_line = rest[n + 1][1],
                                  !.next_syllable = rest[n + 1][2],
                                  !.next_colour_ms = Some(MsAt(p.lyrics, rest[n + 1]))],
                 syllables |-> syllables]
           ELSE [p |-> [p1 EXCEPT !.next_line = Max(p.next_line, Len(p.lyrics)),
                                  !.next_syllable = IF p.next_line < Len(p.lyrics)
                                                    THEN 0 ELSE @,
                                  !.next_colour_ms = None],
                 syllables |-> syllables]
      First(rest) ==
        CHOOSE k \in 0 .. Len(rest) :
          Shown(rest, k) /\ (k < Len(rest) => ~Shown(rest, k + 1))
      ScanFrom(rest) == Scan(rest, First(rest))
  IN ScanFrom(SelectSeq(LyricPositions(p.lyrics, 0), AtOrAfter))

\* consider_scroll (kar.py:1426-1500): the time of the next change and the
\* top line
ConsiderScroll(p) ==
  IF p.current_line <= p.top_line THEN p
  ELSE IF p.top_line + p.num_rows >= Len(p.lyrics) THEN p
  ELSE LET waits == p.next_colour_ms # None
           next_ms == IF waits THEN The(p.next_colour_ms) ELSE 0
           timeGap == IF waits THEN next_ms - p.current_colour_ms ELSE 0
           scrollTime == next_ms - PARAGRAPH_LEAD_TIME
           currentLine == IF timeGap > PARAGRAPH_LEAD_TIME THEN p.next_line
                          ELSE p.current_line
           topLine == Max(Min(currentLine - p.view_row, Len(p.lyrics) - p.num_rows), 0)
       IN IF waits /\ p.current_ms < scrollTime
          THEN [p EXCEPT !.next_change_ms = Some(scrollTime)]
          ELSE [p EXCEPT !.top_line = topLine]

\* colour_update_ms (kar.py:1367-1392): the player and the list that
\* get_new_syllables returned, if it was called
ColourUpdateMs(p) ==
  IF IF p.next_change_ms = None THEN TRUE ELSE p.current_ms < The(p.next_change_ms)
  THEN [p |-> p, syllables |-> <<>>]
  ELSE LET Updated(res) ==
             [p |-> ConsiderScroll([res.p EXCEPT !.next_change_ms = res.p.next_colour_ms]),
              syllables |-> res.syllables]
       IN Updated(GetNewSyllables(p))

\* MidPlayer.do_stuff (kar.py:1319-1331) after PykPlayer.do_stuff
\* (player.py:343-361), polled at position ms
KarDoStuff(p, ms) ==
  IF p.state = "STATE_CLOSING"
  THEN [p |-> [p EXCEPT !.state = "STATE_CLOSED"], syllables |-> <<>>]
  ELSE IF p.state # "STATE_PLAYING" THEN [p |-> p, syllables |-> <<>>]
  ELSE LET Closed(res) ==
             [res EXCEPT !.p.state = IF ms > p.last_note_ms THEN "STATE_CLOSING" ELSE @]
       IN Closed(ColourUpdateMs([p EXCEPT !.current_ms = ms]))

\* nothing has been returned since the last reset
NewKarLog == [time |-> None, returned |-> <<>>, batch |-> <<>>]

InitKar ==
  /\ CdgIdle /\ MidiIdle /\ BackendIdle /\ DbIdle /\ FnIdle
  /\ \E lyrics \in KarLyrics, num_rows \in KarRows, last_note_ms \in KarLastNotes :
       player = NewMidPlayer(lyrics, num_rows, last_note_ms)
  /\ poll_log = NewKarLog

\* PykPlayer.play (player.py:156-163) with MidPlayer.do_play
KarPlayAct ==
  /\ player.state \in {"STATE_INIT", "STATE_NOT_PLAYING"}
  /\ player' = [player EXCEPT !.state = "STATE_PLAYING", !.op = "play"]
  /\ poll_log' = [poll_log EXCEPT !.batch = <<>>]
  /\ UNCHANGED <<cdg_vars, midi_vars, backend, song_db, fn_vars>>

\* PykPlayer.pause (player.py:166-174)
KarPauseAct ==
  /\ player.state \in {"STATE_PLAYING", "STATE_PAUSED"}
  /\ player' = [player EXCEPT !.state = IF @ = "STATE_PLAYING" THEN "STATE_PAUSED"
                                        ELSE "STATE_PLAYING",
                              !.op = "pause"]
  /\ poll_log' = [poll_log EXCEPT !.batch = <<>>]
  /\ UNCHANGED <<cdg_vars, midi_vars, backend, song_db, fn_vars>>

\* PykPlayer.rewind (player.py:181-186) with MidPlayer.do_rewind
\* (kar.py:1300-1306): the playing state is reset and the clock restarts
KarRewindAct ==
  /\ player.state \in {"STATE_PLAYING", "STATE_PAUSED"}
  /\ player' = [ResetPlayingState(player) EXCEPT !.state = "STATE_NOT_PLAYING",
                                                 !.op = "rewind"]
  /\ poll_log' = NewKarLog
  /\ UNCHANGED <<cdg_vars, midi_vars, backend, song_db, fn_vars>>

\* do_resize (kar.py:1348-1365) with an unchanged font: the cursor is reset
\* as in reset_playing_state, current_ms is kept and colour_update_ms runs
KarResizeAct ==
  /\ player.state \in {"STATE_PLAYING", "STATE_PAUSED"}
  /\ player.op # "resize"
  /\ \E res \in {ColourUpdateMs([ResetPlayingState(player) EXCEPT
                                   !.current_ms = player.current_ms])} :
       /\ player' = [res.p EXCEPT !.op = "resize"]
       /\ poll_log' = [poll_log EXCEPT !.returned = res.syllables,
                                       !.batch = res.syllables]
  /\ UNCHANGED <<cdg_vars, midi_vars, backend, song_db, fn_vars>>

\* a poll at a playback position not before that of the poll before it
KarDoStuffAct(ms) ==
  /\ player.state # "STATE_CLOSED"
  /\ IF poll_log.time = None THEN TRUE ELSE ms >= The(poll_log.time)
  /\ \E res \in {KarDoStuff(player, ms)} :
       /\ player' = [res.p EXCEPT !.op = IF player.state = "STATE_PLAYING" THEN "poll"
                                         ELSE "do_stuff"]
       /\ poll_log' = IF player.state = "STATE_PLAYING"
                      THEN [time |-> Some(ms),
                            returned |-> poll_log.returned \o res.syllables,
                            batch |-> res.syllables]
                      ELSE [poll_log EXCEPT !.batch = <<>>]
  /\ UNCHANGED <<cdg_vars, midi_vars, backend, song_db, fn_vars>>

NextKar ==
  \/ KarPlayAct
  \/ KarPauseAct
  \/ KarRewindAct
  \/ KarResizeAct
  \/ \E ms \in KarTimes : KarDoStuffAct(ms)

SpecKar == InitKar /\ [][NextKar]_vars

\* the cursor position a is not after b
CursorLeq(a, b) == a[1] < b[1] \/ (a[1] = b[1] /\ a[2] <= b[2])

KarCursor(p) == <<p.next_line, p.next_syllable>>

\* the last step reset the playing state
KarReset(p) == p.op \in {"rewind", "resize"}

(***************************************************************************)
(* C39: between two resets of the KAR player's playing state, across any   *)
(* sequence of polls with non-decreasing playback time, the lyric cursor   *)
(* never moves backward, each syllable is returned by get_new_syllables at *)
(* most once, in list order, and only in a poll whose playback time is at  *)
(* or after the syllable's ms; and once the playback time of a poll is at  *)
(* or after the ms of every syllable, all syllables have been returned.    *)
(***************************************************************************)
C39_LyricCursorMonotone ==
  /\ [][~KarReset(player') => CursorLeq(KarCursor(player), KarCursor(player'))]_vars
  /\ [](LET all == LyricPositions(player.lyrics, 0)
        IN /\ Len(poll_log.returned) <= Len(all)
           /\ poll_log.returned = SubSeq(all, 1, Len(poll_log.returned))
           /\ \A j \in 1 .. Len(poll_log.batch) :
                MsAt(player.lyrics, poll_log.batch[j]) <= player.current_ms
           /\ (/\ player.op = "poll"
               /\ \A j \in 1 .. Len(all) : MsAt(player.lyrics, all[j]) <= player.current_ms)
                => poll_log.returned = all)

\* after an earlier poll has returned a syllable, a poll has returned two
\* syllables of different lines, the second with the earlier ms, and has
\* stopped in front of a syllable that is not yet due
C39_Witness ==
  /\ player.op = "poll"
  /\ Len(poll_log.batch) = 2
  /\ Len(poll_log.returned) > Len(poll_log.batch)
  /\ Len(poll_log.returned) < Len(LyricPositions(player.lyrics, 0))
  /\ poll_log.batch[1][1] < poll_log.batch[2][1]
  /\ MsAt(player.lyrics, poll_log.batch[2]) < MsAt(player.lyrics, poll_log.batch[1])

(***************************************************************************)
(*          The threaded external player (mpg.py, ExternalPlayer)          *)
(*                                                                         *)
(* manager.settings.MpgExternalThreaded is on.  play() and do_stuff() run  *)
(* on the main thread, which blocks in Thread.join when __stop finds the   *)
(* watcher still alive.  Every __start creates one process and one watcher *)
(* thread, numbered alike.  The watcher reads self.proc, waits for the     *)
(* process, stores the return code (-1 after an OSError) and ends.  The    *)
(* environment lets a running process exit.  poll_log holds the processes  *)
(* and the watchers, and counts the exits and the polls that closed the    *)
(* player.                                                                 *)
(***************************************************************************)
MaxStarts == 3

ReturnCodes == {0, 1}

\* ExternalPlayer.__init__ (mpg.py:255-271)
NewExternalPlayer ==
  [state |-> "STATE_INIT",
   song_finished_callback |-> TRUE,
   procReturnCode |-> None,
   proc |-> None,
   thread |-> None,
   done_calls |-> 0,
   pc |-> "idle"]

NewProcesses == [procs |-> <<>>, watchers |-> <<>>, exits |-> 0, closes |-> 0]

\* __start (mpg.py:302-334): Popen and Thread.start
ExtStart(p, log) ==
  LET n == Len(log.procs) + 1
  IN [p |-> [p EXCEPT !.proc = Some(n), !.thread = Some(n)],
      log |-> [log EXCEPT !.procs = Append(@, [status |-> "running", code |-> None]),
                          !.watchers = Append(@, [pc |-> "started", proc |-> None])]]

\* __stop (mpg.py:336-340), once the join has returned
ExtStop(p) ==
  [p EXCEPT !.proc = None, !.procReturnCode = None, !.thread = None]

\* the watcher that __stop joins is still alive
ExtMustJoin(p, log) ==
  /\ p.procReturnCode # None
  /\ p.thread # None
  /\ log.watchers[The(p.thread)].pc # "ended"

\* play (player.py:156-163) with do_play (mpg.py:273-279), from __stop on
ExtPlay(p, log) ==
  LET p1 == IF p.procReturnCode # None THEN ExtStop(p) ELSE p
      Played(res) == [res EXCEPT !.p.state = "STATE_PLAYING", !.p.pc = "idle"]
  IN Played(IF p1.proc = None THEN ExtStart(p1, log) ELSE [p |-> p1, log |-> log])

\* do_stuff (mpg.py:294-300) with PykPlayer.do_stuff (player.py:343-361),
\* from __stop on
ExtDoStuff(p, log) ==
  LET done == p.procReturnCode # None
      p1 == IF done THEN [ExtStop(p) EXCEPT !.state = "STATE_CLOSING"] ELSE p
      AfterPoll(res) ==
        [p |-> [res.p EXCEPT !.done_calls = @ + res.done_calls, !.pc = "idle"],
         log |-> IF done THEN [log EXCEPT !.closes = @ + 1] ELSE log]
  IN AfterPoll(IF p1.state = "STATE_CLOSING" THEN PykShutdown(p1)
               ELSE [p |-> p1, done_calls |-> 0])

InitExternal ==
  /\ CdgIdle /\ MidiIdle /\ BackendIdle /\ DbIdle /\ FnIdle
  /\ player = NewExternalPlayer
  /\ poll_log = NewProcesses

\* the main thread calls play()
ExtPlayAct ==
  /\ player.pc = "idle"
  /\ IF ExtMustJoin(player, poll_log)
     THEN /\ player' = [player EXCEPT !.pc = "play_join"]
          /\ UNCHANGED poll_log
     ELSE \E res \in {ExtPlay(player, poll_log)} :
            /\ Len(res.log.procs) <= MaxStarts
            /\ player' = res.p
            /\ poll_log' = res.log
  /\ UNCHANGED <<cdg_vars, midi_vars, backend, song_db, fn_vars>>

\* the main thread polls the player
ExtDoStuffAct ==
  /\ player.pc = "idle"
  /\ IF ExtMustJoin(player, poll_log)
     THEN /\ player' = [player EXCEPT !.pc = "poll_join"]
          /\ UNCHANGED poll_log
     ELSE \E res \in {ExtDoStuff(player, poll_log)} :
            /\ player' = res.p
            /\ poll_log' = res.log
  /\ UNCHANGED <<cdg_vars, midi_vars, backend, song_db, fn_vars>>

\* Thread.join returns and the call goes on
ExtJoinAct ==
  /\ player.pc \in {"play_join", "poll_join"}
  /\ ~ExtMustJoin(player, poll_log)
  /\ \E res \in {IF player.pc = "play_join" THEN ExtPlay(player, poll_log)
                 ELSE ExtDoStuff(player, poll_log)} :
       /\ Len(res.log.procs) <= MaxStarts
       /\ player' = res.p
       /\ poll_log' = res.log
  /\ UNCHANGED <<cdg_vars, midi_vars, backend, song_db, fn_vars>>

\* the external process n exits
ProcExitAct(n) ==
  /\ poll_log.procs[n].status = "running"
  /\ \E code \in ReturnCodes :
       poll_log' = [poll_log EXCEPT !.procs[n] = [status |-> "exited", code |-> Some(code)],
                                    !.exits = @ + 1]
  /\ UNCHANGED <<player, cdg_vars, midi_vars, backend, song_db, fn_vars>>

\* __runThread (mpg.py:342-349): the watcher n evaluates self.proc and
\* calls wait; without a process the call raises an error that is not
\* caught and the thread ends
WatcherBeginAct(n) ==
  /\ poll_log.watchers[n].pc = "started"
  /\ poll_log' = [poll_log EXCEPT !.watchers[n] =
                    IF player.proc = None THEN [pc |-> "ended", proc |-> None]
                    ELSE [pc |-> "waiting", proc |-> player.proc]]
  /\ UNCHANGED <<player, cdg_vars, midi_vars, backend, song_db, fn_vars>>

\* __runThread (mpg.py:346-349): wait returns the code, or raises OSError,
\* and procReturnCode is assigned
WatcherReturnAct(n) ==
  /\ poll_log.watchers[n].pc = "waiting"
  /\ poll_log.procs[The(poll_log.watchers[n].proc)].status = "exited"
  /\ \E code \in {The(poll_log.procs[The(poll_log.watchers[n].proc)].code), -1} :
       player' = [player EXCEPT !.procReturnCode = Some(code)]
  /\ poll_log' = [poll_log EXCEPT !.watchers[n].pc = "returned"]
  /\ UNCHANGED <<cdg_vars, midi_vars, backend, song_db, fn_vars>>

\* the watcher n ends
WatcherEndAct(n) ==
  /\ poll_log.watchers[n].pc = "returned"
  /\ poll_log' = [poll_log EXCEPT !.watchers[n].pc = "ended"]
  /\ UNCHANGED <<player, cdg_vars, midi_vars, backend, song_db, fn_vars>>

NextExternal ==
  \/ ExtPlayAct
  \/ ExtDoStuffAct
  \/ ExtJoinAct
  \/ \E n \in 1 .. Len(poll_log.procs) : ProcExitAct(n)
  \/ \E n \in 1 .. Len(poll_log.watchers) : WatcherBeginAct(n)
  \/ \E n \in 1 .. Len(poll_log.watchers) : WatcherReturnAct(n)
  \/ \E n \in 1 .. Len(poll_log.watchers) : WatcherEndAct(n)

SpecExternal == InitExternal /\ [][NextExternal]_vars

RunningProcs == {n \in 1 .. Len(poll_log.procs) : poll_log.procs[n].status = "running"}

LiveWatchers == {n \in 1 .. Len(poll_log.watchers) : poll_log.watchers[n].pc # "ended"}

(***************************************************************************)
(* C40: for the threaded external player, under every interleaving of the  *)
(* process-watcher thread with play() and poll calls on the main thread,   *)
(* at most one external process and one watcher thread exist at any time,  *)
(* and after the external process exits a later poll closes the player     *)
(* exactly once, with no exit being missed and no second process started   *)
(* for the same exit: the polls that closed the player never outnumber the *)
(* exits, and a new process is started only when every exit so far has     *)
(* been closed by a poll.                                                  *)
(***************************************************************************)
C40_EveryExitClosedOnce ==
  /\ [](/\ Cardinality(RunningProcs) <= 1
        /\ Cardinality(LiveWatchers) <= 1
        /\ poll_log.closes <= poll_log.exits)
  /\ [][Len(poll_log'.procs) > Len(poll_log.procs) => poll_log.exits = poll_log.closes]_vars

====
